---- MODULE Spec2Model ----
(***************************************************************************)
(* Model of the memory reconciliation pipeline of mem0-supabase:           *)
(* Memory.add -> Memory._add_to_vector_store -> _create_memory /           *)
(* _update_memory / _delete_memory over the Supabase vector store, the     *)
(* history log and the lifecycle manager.                                  *)
(*                                                                         *)
(* Python dicts are functions whose DOMAIN is the set of keys present, so  *)
(* "key in d" is  k \in DOMAIN d.  Similarities and importance scores are  *)
(* hundredths (92 = 0.92, 100 = 1.0).  uuid4() is a fresh-id counter and   *)
(* datetime.now() the number of decisions handled so far, plus one.        *)
(***************************************************************************)
EXTENDS Integers, Sequences, FiniteSets, TLC

\* ------------------------------------------------------------------ bounds
\* decisions applied in one behaviour, over all add() calls
MaxSteps == 2

\* --------------------------------------------------------------- constants
SurpriseThreshold == 92
FlashbulbThreshold == 60
SearchLimit == 5
ImportanceDefault == 100

\* ------------------------------------------------------------ dict helpers
EmptyDict == [x \in {} |-> 0]

Has(d, k) == k \in DOMAIN d

Put(d, k, v) == [x \in DOMAIN d \cup {k} |-> IF x = k THEN v ELSE d[x]]

\* None is the string "None" for the text-valued keys
None == "None"

Get(d, k) == IF Has(d, k) THEN d[k] ELSE None

\* Python truthiness of an optional string
Truthy(v) == v # None /\ v # ""

Last(s) == s[Len(s)]

\* --------------------------------------------------- external collaborators
Texts == {"t1", "t2"}

\* embedding_model.embed: a one-component vector naming the text's meaning
Embed(t) == IF t = "t1" THEN <<1>> ELSE <<2>>

\* similarity the vector index reports for two vectors (hundredths): equal
\* texts score 1.0, the two distinct texts are related (0.70)
Score(v, w) == IF v = w THEN 100 ELSE 70

\* hashlib.md5(data.encode()).hexdigest()
Md5(t) == <<"md5", t>>

\* ------------------------------------------------------------------- state
VARIABLES
    store,              \* vecs collection: id -> [vec, payload]
    reinforcement,      \* reinforcement_count column: id -> Nat
    history,            \* history table, in insertion order
    nextId,             \* source of uuid4()
    steps,              \* decisions handled so far, over all calls
    pc,                 \* position of the add() call in progress
    args,               \* keyword arguments of the call
    metadata,           \* processed_metadata of the call
    filters,            \* effective_filters of the call
    extraction,         \* what the fact-extraction request came back with
    facts,              \* new_retrieved_facts
    response,           \* what the reconciliation request came back with
    surprise_results,   \* fact text -> assessment
    temp_uuid_mapping,  \* alias idx (position - 1) -> real id
    returned_memories,  \* actions returned by the call
    resp,               \* decision handled by the last loop iteration
    fault,              \* collaborator failure that hit that iteration
    errors,             \* "Error processing memory action" lines logged by the call
    k,                  \* decisions handled so far in this batch
    engine,             \* a SurpriseEngine: its two thresholds
    nearby,             \* the nearby_memories handed to its evaluate()
    evaluated,          \* what evaluate() came back with
    candidates,         \* the results handed to RecollectionEngine._process_results
    final_limit,        \* its limit argument
    recollected,        \* what it came back with
    jump,               \* enable_graph_jump, initial_relations and the memory
                        \* object (enable_graph, llm, graph) of that call
    callers,            \* the threads that call add()
    calls,              \* thread -> the add() call it is in
    graph_store,        \* the graph store: enabled, nodes and edges
    searched,           \* what a search() or recollect() call came back with
    config,             \* MemoryConfig: enable_ego, enable_resonance
    resonance_buffer,   \* Memory.resonance_buffer
    arrived,            \* the rows the realtime channel has announced so far
    handler             \* position of _handle_resonance on the channel's thread

\* the Memory object, its collaborators and the add() call in progress
memoryvars == <<store, reinforcement, history, nextId, steps, pc, args, metadata,
                filters, extraction, facts, response, surprise_results,
                temp_uuid_mapping, returned_memories, resp, fault, errors, k>>

\* the locals of the add() call of the main thread
localvars == <<pc, args, metadata, filters, extraction, facts, response,
               surprise_results, temp_uuid_mapping, returned_memories, resp, fault,
               errors, k>>

\* direct calls of the two engines
enginevars == <<engine, nearby, evaluated, candidates, final_limit, recollected, jump>>

\* add() calls of several threads, and search() / recollect() calls
threadvars == <<callers, calls, graph_store, searched>>

\* the configuration and the resonance channel
recallvars == <<config, resonance_buffer, arrived, handler>>

vars == <<memoryvars, enginevars, threadvars, recallvars>>

\* ------------------------------------------------- Supabase vector store
\* a missing vector (None) and an empty one ([]) are both <<>>: Supabase.update
\* treats them alike in `if vector:`
NoVector == <<>>

\* variant: a missing row is answered with an empty record
SupabaseGet_Empty(st, id) ==
    IF id \in DOMAIN st THEN [found |-> TRUE, payload |-> st[id].payload]
    ELSE [found |-> TRUE, payload |-> EmptyDict]

\* Supabase.get: None when fetch() finds no row, else the row's metadata
SupabaseGet(st, id) ==
    IF id \in DOMAIN st THEN [found |-> TRUE, payload |-> st[id].payload]
    ELSE [found |-> FALSE]

\* collection.upsert([(id, vector, payload)])
Upsert(st, id, vector, payload) ==
    [i \in DOMAIN st \cup {id} |->
        IF i = id THEN [vec |-> vector, payload |-> payload] ELSE st[i]]

\* variant: a record whose hash the collection already holds is not inserted
SupabaseInsert_Unique(st, id, vector, payload) ==
    IF \E i \in DOMAIN st : Get(st[i].payload, "hash") = Get(payload, "hash")
    THEN st ELSE Upsert(st, id, vector, payload)

\* Supabase.insert with one id
SupabaseInsert(st, id, vector, payload) == Upsert(st, id, vector, payload)

\* variant: the row is left in the collection
SupabaseDelete_Keeps(st, id) == st

\* Supabase.delete
SupabaseDelete(st, id) == [i \in DOMAIN st \ {id} |-> st[i]]

\* variant: the upsert is not guarded by `if vector:`
SupabaseUpdate_Unguarded(st, id, vector, payload) == Upsert(st, id, vector, payload)

\* Supabase.update: with no vector it reads the "vector" key of the stored
\* metadata (default []), and it upserts only when the vector is non-empty
SupabaseUpdate(st, id, vector, payload) ==
    LET existing == SupabaseGet(st, id)
        v == IF vector = NoVector /\ existing.found /\ DOMAIN existing.payload # {}
             THEN (IF Has(existing.payload, "vector")
                   THEN existing.payload["vector"] ELSE NoVector)
             ELSE vector
    IN IF v # NoVector THEN Upsert(st, id, v, payload) ELSE st

\* _preprocess_filters + collection.query: every filter key equals the value
Matches(payload, filt) ==
    \A key \in DOMAIN filt : Has(payload, key) /\ payload[key] = filt[key]

\* the best of a non-empty set of ids: highest score, lowest id on ties
BestOf(st, ids, qvec) ==
    CHOOSE i \in ids : \A j \in ids :
        \/ Score(qvec, st[i].vec) > Score(qvec, st[j].vec)
        \/ Score(qvec, st[i].vec) = Score(qvec, st[j].vec) /\ i <= j

RECURSIVE Ranked(_, _, _, _)
Ranked(st, ids, qvec, limit) ==
    IF ids = {} \/ limit = 0 THEN <<>>
    ELSE LET b == BestOf(st, ids, qvec)
         IN <<[id |-> b, score |-> Score(qvec, st[b].vec), payload |-> st[b].payload]>>
            \o Ranked(st, ids \ {b}, qvec, limit - 1)

RECURSIVE Listed(_, _, _)
Listed(st, ids, limit) ==
    IF ids = {} \/ limit = 0 THEN <<>>
    ELSE LET b == CHOOSE i \in ids : \A j \in ids : i <= j
         IN <<[id |-> b, payload |-> st[b].payload]>> \o Listed(st, ids \ {b}, limit - 1)

\* Supabase.list: the matching records (all at the same distance of the zero
\* vector; taken by id), without score
SupabaseList(st, filt, limit) ==
    Listed(st, {i \in DOMAIN st : Matches(st[i].payload, filt)}, limit)

\* Supabase.search (standard vector search)
SupabaseSearch(st, qvec, limit, filt) ==
    Ranked(st, {i \in DOMAIN st : Matches(st[i].payload, filt)}, qvec, limit)

\* ------------------------------------------------------- SurpriseEngine
NoId == 0

\* SurpriseEngine.__init__: the thresholds are stored as given
SurpriseEngine(surprise_threshold, flashbulb_threshold) ==
    [surprise_threshold |-> surprise_threshold,
     flashbulb_threshold |-> flashbulb_threshold]

\* Memory.__init__: self.surprise_engine = SurpriseEngine()
DefaultSurpriseEngine == SurpriseEngine(SurpriseThreshold, FlashbulbThreshold)

\* m.get("score", 0.0)
ScoreOrDefault(m) == IF Has(m, "score") THEN m["score"] ELSE 0

RECURSIVE MaxScore(_)
\* max([m.get("score", 0.0) for m in nearby_memories])
MaxScore(hits) ==
    IF Len(hits) = 1 THEN ScoreOrDefault(hits[1])
    ELSE LET m == MaxScore(Tail(hits))
         IN IF ScoreOrDefault(hits[1]) >= m THEN ScoreOrDefault(hits[1]) ELSE m

\* variant: a similarity equal to the threshold counts as below it
Below_Inclusive(similarity, threshold) == similarity <= threshold

\* max_similarity < self.<threshold>
Below(similarity, threshold) == similarity < threshold

\* SurpriseEngine.evaluate; an entry without "score" counts as 0.0 for the
\* maximum and is never the best match (None == max_similarity is false), and
\* a best match without "id" raises KeyError
SurpriseEvaluate(self, nearby_memories) ==
    IF nearby_memories = <<>>
    THEN [is_surprising |-> TRUE, is_flashbulb |-> TRUE,
          best_match_id |-> NoId, max_similarity |-> 0]
    ELSE LET max_similarity == MaxScore(nearby_memories)
             attaining == {i \in 1..Len(nearby_memories) :
                             /\ Has(nearby_memories[i], "score")
                             /\ nearby_memories[i]["score"] = max_similarity}
             first == CHOOSE i \in attaining : \A j \in attaining : i <= j
         IN IF attaining # {} /\ ~Has(nearby_memories[first], "id")
            THEN [raised |-> "KeyError"]
            ELSE [is_surprising |-> Below(max_similarity, self.surprise_threshold),
                  is_flashbulb |-> Below(max_similarity, self.flashbulb_threshold),
                  best_match_id |-> IF attaining # {} THEN nearby_memories[first]["id"]
                                    ELSE NoId,
                  max_similarity |-> max_similarity]

\* ----------------------------------------------------------- add(): setup
\* the keyword arguments of add()
CallArgs ==
    { [user_id |-> "A"],
      [user_id |-> "A", agent_id |-> "a1"],
      [user_id |-> "A", visibility |-> "team", org_id |-> "o1", team_id |-> "tm1",
       metadata |-> [agent_id |-> "a2", run_id |-> "r1", actor_id |-> "bob",
                     role |-> "user", importance_score |-> 40]],
      [user_id |-> "A", metadata |-> [importance_score |-> 250]],
      [user_id |-> "B"] }

\* build_filters_and_metadata: base_metadata_template (input_metadata plus the
\* session ids passed as keyword arguments)
BaseMetadata(kw) ==
    LET m0 == IF Has(kw, "metadata") THEN kw["metadata"] ELSE EmptyDict
        m1 == IF Truthy(Get(kw, "user_id")) THEN Put(m0, "user_id", kw["user_id"]) ELSE m0
        m2 == IF Truthy(Get(kw, "agent_id")) THEN Put(m1, "agent_id", kw["agent_id"]) ELSE m1
        m3 == IF Truthy(Get(kw, "run_id")) THEN Put(m2, "run_id", kw["run_id"]) ELSE m2
    IN m3

\* add(): processed_metadata with the enterprise context injected; the
\* visibility parameter defaults to "private"
ProcessedMetadata(kw) ==
    LET m0 == BaseMetadata(kw)
        m1 == IF Truthy(Get(kw, "org_id")) THEN Put(m0, "org_id", kw["org_id"]) ELSE m0
        m2 == IF Truthy(Get(kw, "team_id")) THEN Put(m1, "team_id", kw["team_id"]) ELSE m1
    IN Put(m2, "visibility", IF Has(kw, "visibility") THEN kw["visibility"] ELSE "private")

\* build_filters_and_metadata: effective_query_filters
EffectiveFilters(kw) ==
    [key \in {x \in {"user_id", "agent_id", "run_id"} : Truthy(Get(kw, x))} |-> kw[key]]

\* d.update(e)
Updated(d, e) ==
    [key \in DOMAIN d \cup DOMAIN e |-> IF key \in DOMAIN e THEN e[key] ELSE d[key]]

\* build_filters_and_metadata with input_filters, as search() and get_all()
\* call it: the filters, then the session ids passed by keyword
QueryFilters(kw, filt) ==
    [key \in DOMAIN filt \cup DOMAIN EffectiveFilters(kw) |->
        IF key \in DOMAIN EffectiveFilters(kw) THEN kw[key] ELSE filt[key]]

\* variant: a session id in the metadata passes for one
Unscoped_ButMetadata(kw) ==
    /\ DOMAIN EffectiveFilters(kw) = {}
    /\ ~(Has(kw, "metadata") /\ DOMAIN EffectiveFilters(kw["metadata"]) # {})

\* build_filters_and_metadata: no session id was passed by keyword
\* (session_ids_provided is empty), a validation error
Unscoped(kw) == DOMAIN EffectiveFilters(kw) = {}

\* variant: the searches are not scoped
SearchFilters_Unscoped(filt) == EmptyDict

\* _add_to_vector_store: search_filters
SearchFilters(filt) ==
    [key \in {x \in {"user_id", "agent_id", "run_id"} : Truthy(Get(filt, x))} |-> filt[key]]

Range(s) == {s[i] : i \in 1..Len(s)}

\* existing_memories of one fact
Existing(st, fact, filt) ==
    SupabaseSearch(st, Embed(fact), SearchLimit, SearchFilters(filt))

RECURSIVE Retrieved(_, _, _)
\* ids of retrieved_old_memory before de-duplication, in append order
Retrieved(st, fs, filt) ==
    IF fs = <<>> THEN <<>>
    ELSE LET hits == Existing(st, fs[1], filt)
         IN [i \in 1..Len(hits) |-> hits[i].id] \o Retrieved(st, Tail(fs), filt)

\* variant: a record retrieved twice is listed twice
Unique_All(ids) == ids

RECURSIVE Unique(_)
\* dict keyed by id keeps the first insertion position of each key
Unique(ids) ==
    IF ids = <<>> THEN <<>>
    ELSE LET rest == Unique(SubSeq(ids, 1, Len(ids) - 1))
         IN IF Last(ids) \in Range(rest) THEN rest ELSE Append(rest, Last(ids))

\* temp_uuid_mapping: position p holds the real id of alias str(p - 1)
TempUuidMapping(st, fs, filt) == Unique(Retrieved(st, fs, filt))

\* surprise_results of the call
SurpriseResults(st, fs, filt) ==
    [t \in Range(fs) |->
        LET hits == Existing(st, t, filt)
        IN SurpriseEvaluate(DefaultSurpriseEngine,
                            [i \in 1..Len(hits) |-> [id |-> hits[i].id, score |-> hits[i].score]])]

\* new_message_embeddings of the call
NewMessageEmbeddings(fs) == [t \in Range(fs) |-> Embed(t)]

\* ------------------------------------------------- memory primitives
NoTime == 0

\* what a primitive leaves behind: the store, the history, whether it raised
\* and which injected collaborator failure it ran into
Outcome(st, hist, raised, fired) ==
    [store |-> st, history |-> hist, raised |-> raised, fired |-> fired]

HistoryEntry(id, old, new, event, is_deleted, md) ==
    [memory_id |-> id, old_memory |-> old, new_memory |-> new, event |-> event,
     is_deleted |-> is_deleted, actor_id |-> Get(md, "actor_id"), role |-> Get(md, "role")]

Default(d, key, v) == IF Has(d, key) THEN d ELSE Put(d, key, v)

\* Memory._create_memory
CreateMemory(st, hist, id, now, data, existing_embeddings, md, f) ==
    LET cached == data \in DOMAIN existing_embeddings
        embeddings == IF cached THEN existing_embeddings[data] ELSE Embed(data)
        m1 == Put(Put(Put(md, "data", data), "hash", Md5(data)), "created_at", now)
        m2 == Default(Default(Default(Default(m1, "org_id", None), "team_id", None),
                              "visibility", "private"), "importance_score", ImportanceDefault)
        st1 == SupabaseInsert(st, id, embeddings, m2)
        h1 == Append(hist, HistoryEntry(id, None, data, "ADD", FALSE, m2))
    IN IF ~cached /\ f = "embed" THEN Outcome(st, hist, TRUE, f)
       ELSE IF f = "store" THEN Outcome(st, hist, TRUE, f)
       ELSE IF f = "history" THEN Outcome(st1, hist, TRUE, f)
       ELSE Outcome(st1, h1, FALSE, "none")

\* keys of `old` among `keys` that `new` lacks are copied into `new`
Carry(new, old, keys) ==
    [x \in DOMAIN new \cup (keys \cap DOMAIN old) |->
        IF x \in DOMAIN new THEN new[x] ELSE old[x]]

SessionKeys == {"user_id", "agent_id", "run_id", "actor_id", "role"}

EnterpriseKeys == {"org_id", "team_id", "visibility", "importance_score", "is_verified"}

\* variant: the session identifiers of the prior record are not carried over
UpdatedMetadata_NoSession(existing_payload, data, now, md) ==
    LET n1 == Put(Put(md, "data", data), "hash", Md5(data))
        n2 == Put(Put(n1, "created_at",
                      IF Has(existing_payload, "created_at")
                      THEN existing_payload["created_at"] ELSE NoTime),
                  "updated_at", now)
        n4 == Carry(n2, existing_payload, EnterpriseKeys)
    IN Put(n4, "importance_score", ImportanceDefault)

\* Memory._update_memory: the payload written for the record
UpdatedMetadata(existing_payload, data, now, md) ==
    LET n1 == Put(Put(md, "data", data), "hash", Md5(data))
        n2 == Put(Put(n1, "created_at",
                      IF Has(existing_payload, "created_at")
                      THEN existing_payload["created_at"] ELSE NoTime),
                  "updated_at", now)
        n3 == Carry(n2, existing_payload, SessionKeys)
        n4 == Carry(n3, existing_payload, EnterpriseKeys)
    IN Put(n4, "importance_score", ImportanceDefault)

\* variant: the old text is read after the new one is in place
PrevValue_AfterWrite(existing_payload, data) == data

\* Memory._update_memory: the text recorded as old_memory
PrevValue(existing_payload, data) == Get(existing_payload, "data")

\* Memory._update_memory
UpdateMemory(st, hist, id, now, data, existing_embeddings, md, f) ==
    LET existing_memory == SupabaseGet(st, id)
    IN IF f = "store" THEN Outcome(st, hist, TRUE, f)
       ELSE IF ~existing_memory.found THEN Outcome(st, hist, TRUE, "none")
       ELSE
        LET prev_value == PrevValue(existing_memory.payload, data)
            new_metadata == UpdatedMetadata(existing_memory.payload, data, now, md)
            cached == data \in DOMAIN existing_embeddings
            embeddings == IF cached THEN existing_embeddings[data] ELSE Embed(data)
            st1 == SupabaseUpdate(st, id, embeddings, new_metadata)
            h1 == Append(hist, HistoryEntry(id, prev_value, data, "UPDATE", FALSE, new_metadata))
        IN IF ~cached /\ f = "embed" THEN Outcome(st, hist, TRUE, f)
           ELSE IF f = "history" THEN Outcome(st1, hist, TRUE, f)
           ELSE Outcome(st1, h1, FALSE, "none")

\* Memory._delete_memory
DeleteMemory(st, hist, id, f) ==
    LET existing_memory == SupabaseGet(st, id)
    IN IF f = "store" THEN Outcome(st, hist, TRUE, f)
       ELSE IF ~existing_memory.found THEN Outcome(st, hist, TRUE, "none")
       ELSE
        LET prev_value == IF Has(existing_memory.payload, "data")
                          THEN existing_memory.payload["data"] ELSE ""
            st1 == SupabaseDelete(st, id)
            h1 == Append(hist, HistoryEntry(id, prev_value, None, "DELETE", TRUE,
                                            existing_memory.payload))
        IN IF f = "history" THEN Outcome(st1, hist, TRUE, f)
           ELSE Outcome(st1, h1, FALSE, "none")

\* _add_to_vector_store, NONE branch: the session-id refresh of the record
RefreshSessionIds(st, hist, id, now, md, f) ==
    LET existing_memory == SupabaseGet(st, id)
    IN IF f = "store" THEN Outcome(st, hist, TRUE, f)
       ELSE IF ~existing_memory.found THEN Outcome(st, hist, TRUE, "none")
       ELSE
        LET u0 == existing_memory.payload
            u1 == IF Truthy(Get(md, "agent_id")) THEN Put(u0, "agent_id", md["agent_id"]) ELSE u0
            u2 == IF Truthy(Get(md, "run_id")) THEN Put(u1, "run_id", md["run_id"]) ELSE u1
            updated_metadata == Put(u2, "updated_at", now)
        IN Outcome(SupabaseUpdate(st, id, NoVector, updated_metadata), hist, FALSE, "none")

\* SupabaseManager.reinforce_memory: the UPDATE touches the row if it exists;
\* every failure is logged and swallowed
ReinforceMemory(rc, id, f) ==
    IF f = "store" \/ id \notin DOMAIN rc THEN rc
    ELSE [rc EXCEPT ![id] = @ + 1]

\* ------------------------------------------- reconciliation: one decision
\* the id field of a decision as the reasoner may write it: the string of a
\* small integer ("str") or a JSON number ("int"); only strings are keys of
\* temp_uuid_mapping
DecisionIds ==
    { [kind |-> "str", n |-> 0], [kind |-> "str", n |-> 1], [kind |-> "int", n |-> 0] }

NoDecisionId == [kind |-> "null", n |-> 0]

\* the well-formed decisions a batch may hold
WellFormed ==
    [event : {"ADD"}, text : Texts, id : {NoDecisionId}, old_memory : {None},
     object : {TRUE}]
    \cup [event : {"UPDATE"}, text : Texts, id : DecisionIds, old_memory : {"t1"},
          object : {TRUE}]
    \cup [event : {"DELETE", "NONE"}, text : {"t1"}, id : DecisionIds, old_memory : {None},
          object : {TRUE}]

\* entries of the "memory" list the reasoner may also write: an event tag the
\* loop does not know, an empty text, no text key at all (text None), and an
\* entry that is not a JSON object (a bare string; object FALSE)
Malformed ==
    { [event |-> "MERGE", text |-> "t1", id |-> [kind |-> "str", n |-> 0],
       old_memory |-> None, object |-> TRUE],
      [event |-> "ADD", text |-> "", id |-> NoDecisionId,
       old_memory |-> None, object |-> TRUE],
      [event |-> "DELETE", text |-> None, id |-> [kind |-> "str", n |-> 0],
       old_memory |-> None, object |-> TRUE],
      [event |-> "", text |-> "t1", id |-> NoDecisionId,
       old_memory |-> None, object |-> FALSE] }

\* the entries a batch may hold
Decisions == WellFormed \cup Malformed

\* collaborator call that throws while a decision is applied
Faults == {"none", "embed", "store", "history"}

\* variant: the id is coerced to an integer index before the lookup
Resolve_Coerced(mapping, id) ==
    IF id.n + 1 \in 1..Len(mapping) THEN mapping[id.n + 1] ELSE NoId

\* temp_uuid_mapping.get(resp.get("id"))
Resolve(mapping, id) ==
    IF id.kind = "str" /\ id.n + 1 \in 1..Len(mapping) THEN mapping[id.n + 1] ELSE NoId

\* surprise_results.get(action_text, {"is_surprising": True})
SurpriseOf(results, action_text) ==
    IF action_text \in DOMAIN results THEN results[action_text]
    ELSE [is_surprising |-> TRUE]

\* variant: the `not` of the surprise test is missing
Reinforces_Inverted(surprise) ==
    /\ surprise["is_surprising"]
    /\ Has(surprise, "best_match_id")
    /\ surprise["best_match_id"] # NoId

\* the ADD branch reinforces instead of inserting
Reinforces(surprise) == ~surprise["is_surprising"] /\ surprise["best_match_id"] # NoId

\* variant: the tag follows is_surprising
AddMetadata_Surprising(md, surprise) ==
    IF surprise["is_surprising"] THEN Put(md, "is_flashbulb", TRUE) ELSE md

\* the metadata handed to _create_memory by the ADD branch
AddMetadata(md, surprise) ==
    IF Has(surprise, "is_flashbulb") /\ surprise["is_flashbulb"]
    THEN Put(md, "is_flashbulb", TRUE) ELSE md

\* the state a loop iteration leaves behind
Applied(out, rc, ret, nid) ==
    [store |-> out.store, history |-> out.history, reinforcement |-> rc,
     returned |-> ret, nextId |-> nid, fired |-> out.fired, raised |-> out.raised]

Unchanged(st, hist, rc, ret, nid) ==
    Applied(Outcome(st, hist, FALSE, "none"), rc, ret, nid)

\* ADD branch
ApplyAdd(st, hist, rc, ret, nid, now, d, f, md, results, mapping, embs) ==
    LET surprise == SurpriseOf(results, d.text)
    IN IF Reinforces(surprise)
       THEN Applied(Outcome(st, hist, FALSE, IF f = "store" THEN f ELSE "none"),
                    ReinforceMemory(rc, surprise["best_match_id"], f),
                    Append(ret, [id |-> surprise["best_match_id"], memory |-> d.text,
                                 event |-> "REINFORCE"]),
                    nid)
       ELSE LET out == CreateMemory(st, hist, nid, now, d.text, embs,
                                    AddMetadata(md, surprise), f)
                inserted == nid \in DOMAIN out.store
            IN Applied(out,
                       IF inserted THEN [i \in DOMAIN rc \cup {nid} |-> IF i = nid THEN 0 ELSE rc[i]]
                       ELSE rc,
                       IF out.raised THEN ret
                       ELSE Append(ret, [id |-> nid, memory |-> d.text, event |-> d.event]),
                       IF inserted THEN nid + 1 ELSE nid)

\* UPDATE branch
ApplyUpdate(st, hist, rc, ret, nid, now, d, f, md, results, mapping, embs) ==
    LET mem_id == Resolve(mapping, d.id)
    IN IF mem_id = NoId THEN Unchanged(st, hist, rc, ret, nid)
       ELSE LET out == UpdateMemory(st, hist, mem_id, now, d.text, embs, md, f)
            IN Applied(out, rc,
                       IF out.raised THEN ret
                       ELSE Append(ret, [id |-> mem_id, memory |-> d.text, event |-> d.event,
                                         previous_memory |-> d.old_memory]),
                       nid)

\* DELETE branch
ApplyDelete(st, hist, rc, ret, nid, now, d, f, md, results, mapping, embs) ==
    LET mem_id == Resolve(mapping, d.id)
    IN IF mem_id = NoId THEN Unchanged(st, hist, rc, ret, nid)
       ELSE LET out == DeleteMemory(st, hist, mem_id, f)
            IN Applied(out,
                       [i \in DOMAIN rc \cap DOMAIN out.store |-> rc[i]],
                       IF out.raised THEN ret
                       ELSE Append(ret, [id |-> mem_id, memory |-> d.text, event |-> d.event]),
                       nid)

\* NONE branch
ApplyNone(st, hist, rc, ret, nid, now, d, f, md, results, mapping, embs) ==
    LET memory_id == Resolve(mapping, d.id)
    IN IF memory_id # NoId /\ (Truthy(Get(md, "agent_id")) \/ Truthy(Get(md, "run_id")))
       THEN Applied(RefreshSessionIds(st, hist, memory_id, now, md, f), rc, ret, nid)
       ELSE Unchanged(st, hist, rc, ret, nid)

\* variant: the empty-text check is missing
Skips_Never(d) == FALSE

\* `if not action_text: continue`
Skips(d) == ~Truthy(d.text)

\* body of the loop over new_memories_with_actions["memory"]; whatever a
\* branch raises is caught and logged by the enclosing try
ApplyDecision(st, hist, rc, ret, nid, now, d, f, md, results, mapping, embs) ==
    IF ~d.object THEN Applied(Outcome(st, hist, TRUE, "none"), rc, ret, nid)
    ELSE IF Skips(d) THEN Unchanged(st, hist, rc, ret, nid)
    ELSE IF d.event = "ADD" THEN ApplyAdd(st, hist, rc, ret, nid, now, d, f, md, results, mapping, embs)
    ELSE IF d.event = "UPDATE" THEN ApplyUpdate(st, hist, rc, ret, nid, now, d, f, md, results, mapping, embs)
    ELSE IF d.event = "DELETE" THEN ApplyDelete(st, hist, rc, ret, nid, now, d, f, md, results, mapping, embs)
    ELSE IF d.event = "NONE" THEN ApplyNone(st, hist, rc, ret, nid, now, d, f, md, results, mapping, embs)
    ELSE Unchanged(st, hist, rc, ret, nid)

\* variant: no try inside the loop, the enclosing one ends the loop
AfterIteration_Abort(raised) == IF raised THEN "aborted" ELSE "apply"

\* where the loop stands after an iteration: the try inside the loop catches
\* whatever the iteration raised, so the loop goes on
AfterIteration(raised) == "apply"

\* ------------------------------------------------ the reasoner's responses
\* what a generate_response call may come back with: a JSON document, an
\* empty string, text that is not JSON, or an exception
Responses == {"json", "empty", "garbage", "throws"}

\* no request was made
NoResponse == "skipped"

\* the fact lists a JSON extraction response may hold
FactLists == {<<>>, <<"t1">>, <<"t2">>, <<"t1", "t2">>}

\* the fact-extraction request is made outside any try: its exception leaves
\* _add_to_vector_store and, through future1.result(), add()
ExtractionRaises(e) == e = "throws"

\* new_retrieved_facts: the "facts" of a JSON response, [] for an empty or
\* unparseable one
NewRetrievedFacts(e, fs) == IF e = "json" THEN fs ELSE <<>>

\* the reconciliation request is made only when there are facts
UpdateResponse(fs, r) == IF fs = <<>> THEN NoResponse ELSE r

\* variant: whatever text came back is taken for the decision list
HasDecisions_Unparsed(r) == r \in {"json", "garbage"}

\* new_memories_with_actions holds a "memory" list: the request was made, did
\* not throw, and its text is non-empty and parses
HasDecisions(r) == r = "json"

\* ----------------------------------------------------------------- actions

NoDecision ==
    [event |-> "", text |-> "", id |-> NoDecisionId, old_memory |-> None, object |-> TRUE]

\* evaluate() / _process_results has not been called
NotCalled == [called |-> FALSE]

\* Memory.__init__ over an empty collection; no call in progress
\* no add() call is in progress in the main thread
CallIdle ==
    /\ pc = "idle"
    /\ args = EmptyDict
    /\ metadata = EmptyDict
    /\ filters = EmptyDict
    /\ extraction = NoResponse
    /\ facts = <<>>
    /\ response = NoResponse
    /\ surprise_results = EmptyDict
    /\ temp_uuid_mapping = <<>>
    /\ returned_memories = <<>>
    /\ resp = NoDecision
    /\ fault = "none"
    /\ errors = 0
    /\ k = 0

\* a Memory object over an empty collection, no call in progress
MemoryInit ==
    /\ store = EmptyDict
    /\ reinforcement = EmptyDict
    /\ history = <<>>
    /\ nextId = 1
    /\ steps = 0
    /\ CallIdle

\* the surprise engine of the Memory object; nothing calls it directly
SurpriseIdle ==
    /\ engine = DefaultSurpriseEngine
    /\ nearby = <<>>
    /\ evaluated = NotCalled

\* memory.llm is None
NoLlm == [present |-> FALSE, raises |-> {}, entities |-> <<>>]

\* a graph store without edges
EmptyGraph == [raises |-> {}, answers |-> "empty"]

\* enable_graph_jump False, no relations, a Memory without graph store
NoJump ==
    [enable_graph_jump |-> FALSE, initial_relations |-> <<>>,
     memory |-> [enable_graph |-> FALSE, llm |-> NoLlm, graph |-> EmptyGraph]]

\* nothing calls the recollection engine
RecollectionIdle ==
    /\ candidates = <<>>
    /\ final_limit = 0
    /\ recollected = NotCalled
    /\ jump = NoJump

\* the threads that may call add()
Callers == {1, 2}

\* _add_to_graph returned None
NoRelations == [nodes |-> 0 - 1, edges |-> 0 - 1]

\* a thread that is in no add() call
IdleCall ==
    [stage |-> "idle", vector |-> "pending", graph |-> "pending",
     metadata |-> EmptyDict, filters |-> EmptyDict, facts |-> <<>>,
     decisions |-> <<>>, k |-> 0, surprise_results |-> EmptyDict,
     temp_uuid_mapping |-> <<>>, returned |-> <<>>, extraction |-> EmptyDict,
     relations |-> NoRelations, graph_at |-> 0, response |-> EmptyDict]

\* Memory.__init__ without graph_store config: enable_graph False, graph None
NoGraph == [enabled |-> FALSE, nodes |-> EmptyDict, edges |-> EmptyDict]

\* MemoryConfig's defaults
DefaultConfig == [enable_ego |-> FALSE, enable_resonance |-> FALSE]

\* no other thread uses the Memory object, nothing was searched, no channel
ThreadsIdle ==
    /\ callers = {}
    /\ calls = [c \in Callers |-> IdleCall]
    /\ graph_store = NoGraph
    /\ searched = NotCalled
    /\ config = DefaultConfig
    /\ resonance_buffer = <<>>
    /\ arrived = <<>>
    /\ handler = "idle"

Init == MemoryInit /\ SurpriseIdle /\ RecollectionIdle /\ ThreadsIdle

\* add() up to the loop over the decisions: the validation of the session
\* ids (pc "invalid" when none was passed), metadata and filters, the fact
\* extraction, the facts' embeddings, searches and surprise assessments, the
\* temp-id mapping and the reconciliation request; no call starts once
\* MaxSteps decisions have been handled
AddBegin(a, e, fs, r) ==
    /\ pc = "idle"
    /\ steps < MaxSteps
    /\ args' = a
    /\ metadata' = IF Unscoped(a) THEN EmptyDict ELSE ProcessedMetadata(a)
    /\ filters' = EffectiveFilters(a)
    /\ extraction' = IF Unscoped(a) THEN NoResponse ELSE e
    /\ returned_memories' = <<>>
    /\ resp' = NoDecision
    /\ fault' = "none"
    /\ errors' = 0
    /\ k' = 0
    /\ IF Unscoped(a) \/ ExtractionRaises(e)
       THEN /\ pc' = IF Unscoped(a) THEN "invalid" ELSE "raised"
            /\ facts' = <<>>
            /\ response' = NoResponse
            /\ surprise_results' = EmptyDict
            /\ temp_uuid_mapping' = <<>>
       ELSE LET new_retrieved_facts == NewRetrievedFacts(e, fs)
            IN /\ pc' = "apply"
               /\ facts' = new_retrieved_facts
               /\ response' = UpdateResponse(new_retrieved_facts, r)
               /\ surprise_results' =
                    SurpriseResults(store, new_retrieved_facts, EffectiveFilters(a))
               /\ temp_uuid_mapping' =
                    TempUuidMapping(store, new_retrieved_facts, EffectiveFilters(a))
    /\ UNCHANGED <<store, reinforcement, history, nextId, steps, enginevars, threadvars, recallvars>>

\* one iteration of the loop over the reasoner's decisions
Reconcile(d, f) ==
    /\ pc = "apply"
    /\ HasDecisions(response)
    /\ steps < MaxSteps
    /\ LET a == ApplyDecision(store, history, reinforcement, returned_memories, nextId,
                              steps + 1, d, f, metadata, surprise_results,
                              temp_uuid_mapping, NewMessageEmbeddings(facts))
       IN /\ store' = a.store
          /\ history' = a.history
          /\ reinforcement' = a.reinforcement
          /\ returned_memories' = a.returned
          /\ nextId' = a.nextId
          /\ fault' = a.fired
          /\ errors' = IF a.raised THEN errors + 1 ELSE errors
          /\ pc' = AfterIteration(a.raised)
    /\ resp' = d
    /\ k' = k + 1
    /\ steps' = steps + 1
    /\ UNCHANGED <<args, metadata, filters, extraction, facts, response,
                   surprise_results, temp_uuid_mapping, enginevars, threadvars, recallvars>>

\* the loop ends and add() returns returned_memories; the locals of the call
\* are gone
Return ==
    /\ pc \in {"apply", "aborted"}
    /\ pc' = "idle"
    /\ args' = EmptyDict
    /\ metadata' = EmptyDict
    /\ filters' = EmptyDict
    /\ extraction' = NoResponse
    /\ facts' = <<>>
    /\ response' = NoResponse
    /\ surprise_results' = EmptyDict
    /\ temp_uuid_mapping' = <<>>
    /\ returned_memories' = <<>>
    /\ resp' = NoDecision
    /\ fault' = "none"
    /\ errors' = 0
    /\ k' = 0
    /\ UNCHANGED <<store, reinforcement, history, nextId, steps, enginevars, threadvars, recallvars>>

\* the validation error or the exception of the fact-extraction request
\* reaches the caller of add()
Raise ==
    /\ pc \in {"invalid", "raised"}
    /\ pc' = "idle"
    /\ args' = EmptyDict
    /\ metadata' = EmptyDict
    /\ filters' = EmptyDict
    /\ extraction' = NoResponse
    /\ UNCHANGED <<store, reinforcement, history, nextId, steps, facts, response,
                   surprise_results, temp_uuid_mapping, returned_memories, resp,
                   fault, errors, k, enginevars, threadvars, recallvars>>

Next ==
    \/ \E a \in CallArgs, e \in Responses, fs \in FactLists, r \in Responses :
            AddBegin(a, e, fs, r)
    \/ \E d \in Decisions, f \in Faults : Reconcile(d, f)
    \/ Return
    \/ Raise

Spec == Init /\ [][Next]_vars

\* ------------------------------------------ SurpriseEngine called directly
\* longest nearby list tried
MaxNearby == 2

\* values the constructor is given: the two defaults, in either role
Thresholds == {FlashbulbThreshold, SurpriseThreshold}

Engines == {SurpriseEngine(s, f) : s \in Thresholds, f \in Thresholds}

\* similarities just below, at and above the two default thresholds
NearbyScores == {59, 60, 92, 95}

\* nearby entries: {"id", "score"} dicts, one without "score", one without "id"
NearbyEntries ==
    [id : {1, 2}, score : NearbyScores] \cup {[id |-> 1], [score |-> 95]}

NearbyLists == UNION {[1..n -> NearbyEntries] : n \in 0..MaxNearby}

SurpriseInit ==
    /\ MemoryInit /\ RecollectionIdle /\ ThreadsIdle
    /\ engine \in Engines
    /\ nearby \in NearbyLists
    /\ evaluated = NotCalled

\* engine.evaluate(new_embedding, nearby)
Evaluate ==
    /\ evaluated = NotCalled
    /\ evaluated' = SurpriseEvaluate(engine, nearby)
    /\ UNCHANGED <<memoryvars, engine, nearby, candidates, final_limit, recollected, jump,
                   threadvars, recallvars>>

SurpriseNext == Evaluate

SurpriseSpec == SurpriseInit /\ [][SurpriseNext]_vars

\* --------------------------------------- RecollectionEngine._process_results
\* Similarity and importance are hundredths, a recollection score is in
\* ten-thousandths (round(..., 4)), recency is the exact fraction num/den.
\* created_at is [parses |-> FALSE] for a string fromisoformat rejects, else
\* [parses |-> TRUE, days |-> (now - created_at).days].
WSimilarity == 50
WImportance == 30
WRecency == 20
SimilarityDefault == 50
RecallImportanceDefault == 100
HalfLifeDays == 30

\* variant: a candidate without a score counts as similarity 0
Similarity_Zero(item) == IF Has(item, "score") THEN item["score"] ELSE 0

\* item.get("score", 0.5)
Similarity(item) == IF Has(item, "score") THEN item["score"] ELSE SimilarityDefault

\* item.get("importance_score", 1.0)
Importance(item) ==
    IF Has(item, "importance_score") THEN item["importance_score"]
    ELSE RecallImportanceDefault

\* variant: a candidate whose created_at is missing or does not parse gets
\* recency 0
Recency_NoDefault(item) ==
    IF ~Has(item, "created_at") \/ ~item["created_at"].parses
    THEN [num |-> 0, den |-> 1]
    ELSE [num |-> HalfLifeDays, den |-> HalfLifeDays + item["created_at"].days]

\* recency_score: 0.5 without created_at or when it does not parse, else
\* 1.0 / (1.0 + delta_days / 30.0) = 30 / (30 + delta_days); den = 0 is the
\* division by zero of a created_at 30 days ahead
Recency(item) ==
    IF ~Has(item, "created_at") \/ ~item["created_at"].parses
    THEN [num |-> 1, den |-> 2]
    ELSE [num |-> HalfLifeDays, den |-> HalfLifeDays + item["created_at"].days]

\* round(n / d, 0) for d > 0: the nearest integer, the even one on a tie
RoundHalfEven(n, d) ==
    LET q == n \div d
        r == n % d
    IN IF 2 * r < d THEN q
       ELSE IF 2 * r > d THEN q + 1
       ELSE IF q % 2 = 0 THEN q ELSE q + 1

\* round(blend_score, 4), in ten-thousandths
RecollectionScore(item) ==
    LET rec == Recency(item)
        num == IF rec.den > 0 THEN rec.num ELSE 0 - rec.num
        den == IF rec.den > 0 THEN rec.den ELSE 0 - rec.den
    IN RoundHalfEven((WSimilarity * Similarity(item) + WImportance * Importance(item)) * den
                     + WRecency * 100 * num, den)

\* the loop over results: item["recollection_score"] = ...
Scored(results) ==
    [i \in 1..Len(results) |->
        Put(results[i], "recollection_score", RecollectionScore(results[i]))]

\* variant: x goes in front of the elements that tie with it
InsertBeforeEqual(sorted, x) ==
    LET n == Cardinality({i \in 1..Len(sorted) :
                            sorted[i]["recollection_score"] > x["recollection_score"]})
    IN SubSeq(sorted, 1, n) \o <<x>> \o SubSeq(sorted, n + 1, Len(sorted))

\* x goes behind every element whose score is not smaller than its own
InsertAfterEqual(sorted, x) ==
    LET n == Cardinality({i \in 1..Len(sorted) :
                            sorted[i]["recollection_score"] >= x["recollection_score"]})
    IN SubSeq(sorted, 1, n) \o <<x>> \o SubSeq(sorted, n + 1, Len(sorted))

\* variant: the scored list is returned in input order
SortByScore_AsGiven(items) == items

RECURSIVE SortByScore(_)
\* scored_results.sort(key=recollection_score, reverse=True): descending and
\* stable
SortByScore(items) ==
    IF items = <<>> THEN <<>>
    ELSE InsertAfterEqual(SortByScore(SubSeq(items, 1, Len(items) - 1)), Last(items))

\* variant: nothing is cut off
Truncate_All(items, limit) == items

\* scored_results[:limit] for limit >= 0
Truncate(items, limit) ==
    SubSeq(items, 1, IF limit < Len(items) THEN limit ELSE Len(items))

\* ------------------------------------------------- associative graph jump
\* An association is a dict with source, relation and target; via stands for
\* whatever else the dict carries and tells two dicts of one triple apart.
\* memory.llm is [present, raises, entities]: generate_response raises for
\* the texts in raises and else answers with entities[text], the non-empty
\* stripped pieces of its comma separated answer. memory.graph is
\* [raises, answers]: search raises for the queries in raises.
JumpTop == 2
EntityCap == 3

\* the dedup key
Triple(assoc) == <<assoc.source, assoc.relation, assoc.target>>

\* an edge every query leads to
Shared(via) == [source |-> "s", relation |-> "knows", target |-> "t", via |-> via]

\* the edge of one query
Own(query) == [source |-> query, relation |-> "knows", target |-> "t", via |-> query]

\* memory.graph.search(query) when it returns
Related(graph, query) ==
    IF graph.answers = "empty" THEN <<>>
    ELSE IF graph.answers = "same" THEN <<Shared(query), Own(query)>>
    ELSE <<Own(query)>>

\* variant: all the entities are searched
CapEntities_All(entities) == entities

\* entities[:3]
CapEntities(entities) == Truncate(entities, EntityCap)

\* search_queries of one memory: its text, or the first entities the
\* reasoner extracted from it
SearchQueries(mem_content, llm) ==
    IF ~llm.present \/ mem_content \in llm.raises THEN <<mem_content>>
    ELSE IF llm.entities[mem_content] = <<>> THEN <<mem_content>>
    ELSE CapEntities(llm.entities[mem_content])

RECURSIVE SearchGraph(_, _, _)
\* for query in search_queries: related = graph.search(query);
\* associations.extend(related). A search that raises ends the loop.
SearchGraph(search_queries, graph, acc) ==
    IF search_queries = <<>> THEN acc
    ELSE LET query == Head(search_queries)
             called == [acc EXCEPT !.graph_calls = Append(@, query)]
         IN IF query \in graph.raises THEN [called EXCEPT !.raised = TRUE]
            ELSE SearchGraph(Tail(search_queries), graph,
                    [called EXCEPT !.associations = @ \o Related(graph, query)])

\* the body of the loop over final_memories[:2]
JumpMemory(mem, memory, acc) ==
    LET mem_content == IF Has(mem, "memory") THEN mem["memory"] ELSE ""
    IN IF mem_content = "" THEN acc
       ELSE SearchGraph(SearchQueries(mem_content, memory.llm), memory.graph, acc)

\* variant: the failure of one memory is passed on
Caught_Reraised(acc) == acc

\* except Exception: "Associative jump failed for memory ..." is logged
Caught(acc) == [acc EXCEPT !.raised = FALSE]

RECURSIVE JumpOver(_, _, _)
\* for mem in final_memories[:2]: try ... except
JumpOver(mems, memory, acc) ==
    IF mems = <<>> \/ acc.raised THEN acc
    ELSE JumpOver(Tail(mems), memory, Caught(JumpMemory(Head(mems), memory, acc)))

\* variant: the jump is made whenever there are memories
JumpEnabled_Always(enable_graph_jump, memory, final_memories) ==
    final_memories # <<>>

\* enable_graph_jump and memory.enable_graph and final_memories
JumpEnabled(enable_graph_jump, memory, final_memories) ==
    enable_graph_jump /\ memory.enable_graph /\ final_memories # <<>>

\* associations before the dedup, with the graph searches made on the way
AssociativeJump(final_memories, enable_graph_jump, initial_relations, memory) ==
    LET start == [associations |-> initial_relations, graph_calls |-> <<>>,
                  raised |-> FALSE]
    IN IF JumpEnabled(enable_graph_jump, memory, final_memories)
       THEN JumpOver(Truncate(final_memories, JumpTop), memory, start)
       ELSE start

\* variant: of the dicts of one triple the last one is kept
Dedup_KeepLast(associations) ==
    LET n == Len(associations)
        firsts == {i \in 1..n : \A j \in 1..(i - 1) :
                     Triple(associations[j]) # Triple(associations[i])}
        last(i) == CHOOSE j \in 1..n :
                     /\ Triple(associations[j]) = Triple(associations[i])
                     /\ \A l \in (j + 1)..n :
                          Triple(associations[l]) # Triple(associations[i])
        nth(p) == CHOOSE i \in firsts : Cardinality({j \in firsts : j < i}) = p - 1
    IN [p \in 1..Cardinality(firsts) |-> associations[last(nth(p))]]

RECURSIVE Dedup(_)
\* unique_assoc: the first dict of every (source, relation, target), in the
\* order the triples were first seen
Dedup(associations) ==
    IF associations = <<>> THEN <<>>
    ELSE LET front == Dedup(SubSeq(associations, 1, Len(associations) - 1))
             assoc == Last(associations)
         IN IF \E i \in 1..Len(front) : Triple(front[i]) = Triple(assoc)
            THEN front ELSE Append(front, assoc)

\* _process_results; graph_calls lists the queries memory.graph.search was
\* called with
ProcessResults(results, limit, enable_graph_jump, initial_relations, memory) ==
    IF \E i \in 1..Len(results) : Recency(results[i]).den = 0
    THEN [raised |-> "ZeroDivisionError"]
    ELSE LET final_memories == Truncate(SortByScore(Scored(results)), limit)
             jumped == AssociativeJump(final_memories, enable_graph_jump,
                                       initial_relations, memory)
         IN IF jumped.raised THEN [raised |-> "Exception"]
            ELSE [memories |-> final_memories,
                  associations |-> Dedup(jumped.associations),
                  graph_calls |-> jumped.graph_calls]

\* longest result list tried
MaxResults == 3

Today == [parses |-> TRUE, days |-> 0]

\* the results a search may hand over
Candidates ==
    { [id |-> 1, score |-> 90, importance_score |-> 100, created_at |-> Today,
       memory |-> "m1"],
      [id |-> 2, score |-> 95, importance_score |-> 50, created_at |-> Today,
       memory |-> "m2"],
      [id |-> 3, score |-> 20, importance_score |-> 100, created_at |-> Today,
       memory |-> "m3"],
      [id |-> 4],
      [id |-> 5, score |-> 100, importance_score |-> 100, created_at |-> Today],
      [id |-> 6, score |-> 90, importance_score |-> 100,
       created_at |-> [parses |-> TRUE, days |-> 1]],
      [id |-> 7, score |-> 95, importance_score |-> 50,
       created_at |-> [parses |-> FALSE, days |-> 0]],
      [id |-> 8, score |-> 20, importance_score |-> 100,
       created_at |-> [parses |-> TRUE, days |-> 30]],
      [id |-> 9, score |-> 90, importance_score |-> 100,
       created_at |-> [parses |-> TRUE, days |-> 0 - 30]],
      [id |-> 10, score |-> 90, importance_score |-> 0, created_at |-> Today] }

CandidateLists == UNION {[1..n -> Candidates] : n \in 0..MaxResults}

RecollectionInit ==
    /\ MemoryInit /\ SurpriseIdle /\ ThreadsIdle
    /\ candidates \in CandidateLists
    /\ final_limit \in 0..MaxResults
    /\ recollected = NotCalled
    /\ jump = NoJump

\* variant: every memory returned is reinforced
Reinforced_Recalled(out) ==
    IF Has(out, "memories") THEN {out.memories[i]["id"] : i \in 1..Len(out.memories)}
    ELSE {}

\* the records _process_results writes to: none (it sorts and extends its
\* own lists and only calls generate_response and graph.search)
Reinforced(out) == {}

\* engine._process_results(candidates, final_limit, enable_graph_jump,
\* initial_relations)
Recollect ==
    /\ recollected = NotCalled
    /\ recollected' = ProcessResults(candidates, final_limit, jump.enable_graph_jump,
                                      jump.initial_relations, jump.memory)
    /\ reinforcement' = [id \in DOMAIN reinforcement \cup Reinforced(recollected') |->
                           IF id \in Reinforced(recollected')
                           THEN Default(reinforcement, id, 0)[id] + 1
                           ELSE reinforcement[id]]
    /\ UNCHANGED <<store, history, nextId, steps, localvars, engine, nearby, evaluated,
                   candidates, final_limit, jump, threadvars, recallvars>>

\* engine._process_results(memories, len(memories), False) on the memories
\* the previous call returned
Rerank ==
    /\ recollected # NotCalled /\ ~Has(recollected, "raised")
    /\ candidates # recollected.memories
    /\ candidates' = recollected.memories
    /\ final_limit' = Len(recollected.memories)
    /\ recollected' = ProcessResults(recollected.memories, Len(recollected.memories),
                                      FALSE, <<>>, jump.memory)
    /\ UNCHANGED <<memoryvars, engine, nearby, evaluated, jump, threadvars, recallvars>>

RecollectionNext == Recollect \/ Rerank

RecollectionSpec == RecollectionInit /\ [][RecollectionNext]_vars

\* ----------------------------------------- _process_results with the jump
MemoryTexts == {"m1", "m2", "m3"}

\* the reasoner names four entities for m1 and for m2, one for m3
LlmEntities ==
    [present |-> TRUE, raises |-> {},
     entities |-> [t \in MemoryTexts |->
                     IF t = "m1" THEN <<"e1", "e2", "e3", "e4">>
                     ELSE IF t = "m2" THEN <<"f1", "f2", "f3", "f4">>
                     ELSE <<"g1">>]]

\* memory.llm: none, one that names entities, one whose generate_response
\* raises for m1, one whose answer is empty or holds commas and blanks only
Llms ==
    { NoLlm, LlmEntities, [LlmEntities EXCEPT !.raises = {"m1"}],
      [present |-> TRUE, raises |-> {}, entities |-> [t \in MemoryTexts |-> <<>>]] }

Graphs ==
    { EmptyGraph,
      [raises |-> {}, answers |-> "distinct"],
      [raises |-> {}, answers |-> "same"],
      [raises |-> {"m1", "e2"}, answers |-> "distinct"],
      [raises |-> {"m2", "f1"}, answers |-> "same"] }

\* search_results.get("relations", [])
InitialRelations ==
    { <<>>,
      <<Shared("search"), Shared("again")>>,
      <<Own("e1"), Shared("search")>> }

JumpOptions ==
    [enable_graph_jump : BOOLEAN, initial_relations : InitialRelations,
     memory : [enable_graph : BOOLEAN, llm : Llms, graph : Graphs]]

\* the three candidates with a text and one without; a search returns a
\* record once
JumpCandidateLists ==
    {s \in UNION {[1..n -> {c \in Candidates : c["id"] <= 4}] : n \in 0..MaxResults} :
        \A i, j \in 1..Len(s) : i # j => s[i] # s[j]}

JumpInit ==
    /\ MemoryInit /\ SurpriseIdle /\ ThreadsIdle
    /\ candidates \in JumpCandidateLists
    /\ final_limit \in 0..MaxResults
    /\ recollected = NotCalled
    /\ jump \in JumpOptions

JumpSpec == JumpInit /\ [][Recollect]_vars

\* ---------------------------------------- add() called by several threads
\* Each thread runs add() as far as the two executor.submit calls (Submit),
\* then its two tasks run: _add_to_vector_store (VectorBegin, then one
\* VectorApply per decision of the reasoner) and _add_to_graph (GraphTask);
\* Respond is the return of add() after future1.result() and
\* future2.result(). The reasoner answers with JSON and no collaborator
\* fails while a decision is applied.

\* SupabaseGraph.add: every node is upserted by name, an edge
\* <<source, relation, target>> only when both its nodes exist; on a
\* conflict the properties are merged (properties || :properties)
GraphAdd(g, nodes, edges, props) ==
    LET merged(old) ==
            [x \in DOMAIN old \cup DOMAIN props |->
                IF x \in DOMAIN props THEN props[x] ELSE old[x]]
        upsert(old, keys) ==
            [x \in DOMAIN old \cup keys |->
                IF x \notin keys THEN old[x]
                ELSE IF x \in DOMAIN old THEN merged(old[x]) ELSE props]
        ns == upsert(g.nodes, Range(nodes))
        linked == {e \in Range(edges) : e[1] \in DOMAIN ns /\ e[3] \in DOMAIN ns}
    IN [g EXCEPT !.nodes = ns, !.edges = upsert(g.edges, linked)]

\* Memory._add_to_graph: None without a graph store or when the extraction
\* or the store raises, else the numbers of nodes and edges extracted
AddToGraph(g, x, filt) ==
    IF ~g.enabled \/ x.raises THEN [graph |-> g, relations |-> NoRelations]
    ELSE [graph |-> GraphAdd(g, x.nodes, x.edges,
                             [key \in {"user_id", "agent_id", "run_id"} \cap DOMAIN filt |->
                                filt[key]]),
          relations |-> [nodes |-> Len(x.nodes), edges |-> Len(x.edges)]]

\* what the graph extraction request comes back with: an exception or text
\* that is no JSON, or nodes and edges (one edge names a node that is not
\* among them)
GraphExtractions ==
    { [raises |-> TRUE, nodes |-> <<>>, edges |-> <<>>],
      [raises |-> FALSE, nodes |-> <<"Alice", "Bob">>,
       edges |-> << <<"Alice", "knows", "Bob">>, <<"Alice", "knows", "Carol">> >>] }

\* decisions handled so far or listed by the reasoner and not applied yet
Reserved ==
    LET open(c) == IF calls[c].stage = "running" /\ calls[c].vector = "apply"
                   THEN Len(calls[c].decisions) - calls[c].k ELSE 0
    IN steps + open(1) + open(2)

\* the decisions a reasoner's list may hold
ThreadDecisions ==
    {d \in WellFormed :
        \/ d.event = "ADD"
        \/ d.event = "DELETE" /\ d.id = [kind |-> "str", n |-> 0]}

\* add() up to executor.submit of the two tasks; a thread calls add() once
Submit(c, a) ==
    /\ c \in callers
    /\ calls[c].stage = "idle"
    /\ Reserved < MaxSteps
    /\ calls' = [calls EXCEPT ![c] =
                    [IdleCall EXCEPT !.stage = "running",
                                     !.metadata = ProcessedMetadata(a),
                                     !.filters = EffectiveFilters(a)]]
    /\ UNCHANGED <<memoryvars, enginevars, callers, graph_store, searched, recallvars>>

\* _add_to_vector_store up to the loop: facts, searches, surprise
\* assessments, temp-id mapping and the reasoner's list of decisions
VectorBegin(c, fs, ds) ==
    LET call == calls[c]
    IN /\ call.stage = "running" /\ call.vector = "pending"
       /\ Reserved + Len(ds) <= MaxSteps
       /\ calls' = [calls EXCEPT ![c] =
                       [call EXCEPT !.vector = "apply", !.facts = fs, !.decisions = ds,
                                    !.surprise_results =
                                        SurpriseResults(store, fs, call.filters),
                                    !.temp_uuid_mapping =
                                        TempUuidMapping(store, fs, call.filters)]]
       /\ UNCHANGED <<memoryvars, enginevars, callers, graph_store, searched, recallvars>>

\* one iteration of the loop over the decisions
VectorApply(c) ==
    LET call == calls[c]
    IN /\ call.stage = "running" /\ call.vector = "apply"
       /\ call.k < Len(call.decisions)
       /\ LET a == ApplyDecision(store, history, reinforcement, call.returned, nextId,
                                 steps + 1, call.decisions[call.k + 1], "none",
                                 call.metadata, call.surprise_results,
                                 call.temp_uuid_mapping, NewMessageEmbeddings(call.facts))
          IN /\ store' = a.store
             /\ history' = a.history
             /\ reinforcement' = a.reinforcement
             /\ nextId' = a.nextId
             /\ calls' = [calls EXCEPT ![c] =
                             [call EXCEPT !.k = call.k + 1, !.returned = a.returned]]
       /\ steps' = steps + 1
       /\ UNCHANGED <<localvars, enginevars, callers, graph_store, searched, recallvars>>

\* _add_to_graph; graph_at tells how far the other task was: 0 before its
\* searches, n + 1 after n decisions
GraphTask(c, x) ==
    LET call == calls[c]
        out == AddToGraph(graph_store, x, call.filters)
    IN /\ call.stage = "running" /\ call.graph = "pending"
       /\ graph_store' = out.graph
       /\ calls' = [calls EXCEPT ![c] =
                       [call EXCEPT !.graph = "done", !.extraction = x,
                                    !.relations = out.relations,
                                    !.graph_at = IF call.vector = "pending" THEN 0
                                                 ELSE call.k + 1]]
       /\ UNCHANGED <<memoryvars, enginevars, callers, searched, recallvars>>

\* variant: add() waits for the vector task only
BothDone_VectorOnly(call) ==
    call.vector = "apply" /\ call.k = Len(call.decisions)

\* future1.result() and future2.result() have returned
BothDone(call) ==
    /\ call.vector = "apply" /\ call.k = Len(call.decisions)
    /\ call.graph = "done"

\* the dict add() returns
Response(call, enable_graph) ==
    IF enable_graph THEN [results |-> call.returned, relations |-> call.relations]
    ELSE [results |-> call.returned]

\* add() returns
Respond(c) ==
    LET call == calls[c]
    IN /\ call.stage = "running"
       /\ BothDone(call)
       /\ calls' = [calls EXCEPT ![c] =
                       [call EXCEPT !.stage = "responded",
                                    !.response = Response(call, graph_store.enabled)]]
       /\ UNCHANGED <<memoryvars, enginevars, callers, graph_store, searched, recallvars>>

ThreadInit ==
    /\ MemoryInit /\ SurpriseIdle /\ RecollectionIdle
    /\ callers \in {{1}, Callers}
    /\ calls = [c \in Callers |-> IdleCall]
    /\ graph_store \in {NoGraph, [NoGraph EXCEPT !.enabled = TRUE]}
    /\ searched = NotCalled
    /\ config = DefaultConfig
    /\ resonance_buffer = <<>>
    /\ arrived = <<>>
    /\ handler = "idle"

ThreadNext ==
    \E c \in Callers :
        \/ \E a \in {x \in CallArgs : DOMAIN x = {"user_id"}} : Submit(c, a)
        \/ \E fs \in {x \in FactLists : x # <<>> /\ x[1] = "t1"} :
             \E ds \in UNION {[1..n -> ThreadDecisions] : n \in 0..MaxSteps} :
                VectorBegin(c, fs, ds)
        \/ VectorApply(c)
        \/ \E x \in GraphExtractions : GraphTask(c, x)
        \/ Respond(c)

ThreadSpec == ThreadInit /\ [][ThreadNext]_vars

\* ------------------------------------------- Memory.search and recollect
\* A Memory without reranker, resonance buffer and ego (the defaults). The
\* created_at of a record is the day it was written.

\* _search_vector_store: the MemoryItem dict of a hit, with the promoted
\* payload keys and the remaining payload under "metadata" (none: empty)
MemoryItemDict(hit) ==
    LET payload == hit.payload
        promoted == SessionKeys \cap DOMAIN payload
        core == {"data", "hash", "created_at", "updated_at", "id"} \cup SessionKeys
        item == [id |-> hit.id,
                 memory |-> IF Has(payload, "data") THEN payload["data"] ELSE "",
                 hash |-> Get(payload, "hash"),
                 created_at |-> Get(payload, "created_at"),
                 updated_at |-> Get(payload, "updated_at"),
                 score |-> hit.score,
                 metadata |-> [x \in DOMAIN payload \ core |-> payload[x]]]
    IN [x \in DOMAIN item \cup promoted |->
          IF x \in promoted THEN payload[x] ELSE item[x]]

\* variant: a failure of the embedder or of the store is logged and the
\* search returns no memories
SearchVectorStore_Swallowing(st, query, filt, limit, threshold, f) ==
    IF f \in {"embed", "store"} THEN [memories |-> <<>>]
    ELSE LET hits == SupabaseSearch(st, Embed(query), limit, filt)
         IN [memories |-> SelectSeq([i \in 1..Len(hits) |-> MemoryItemDict(hits[i])],
                                    LAMBDA m : m["score"] >= threshold)]

\* Memory._search_vector_store; f is the collaborator that throws; a
\* threshold of 0 stands for None
SearchVectorStore(st, query, filt, limit, threshold, f) ==
    IF f \in {"embed", "store"} THEN [raised |-> f]
    ELSE LET hits == SupabaseSearch(st, Embed(query), limit, filt)
         IN [memories |-> SelectSeq([i \in 1..Len(hits) |-> MemoryItemDict(hits[i])],
                                    LAMBDA m : m["score"] >= threshold)]

\* Memory.search; with a graph store, self.graph.search(query,
\* effective_filters, limit) is a TypeError: SupabaseGraph.search takes the
\* query only
\* variant: a failing identity lookup is logged and the persona left out
PersonaInjected_Guarded(results, st, cfg, filt, f) ==
    IF ~cfg.enable_ego \/ ~Truthy(Get(filt, "user_id")) \/ f = "list" THEN results
    ELSE LET identity_query == SupabaseList(st, [user_id |-> filt["user_id"],
                                                 memory_type |-> "identity"], 1)
         IN IF identity_query # <<>>
            THEN Put(results, "persona_identity",
                     IF Has(identity_query[1].payload, "data")
                     THEN identity_query[1].payload["data"] ELSE "")
            ELSE results

\* Memory.search, Layer 12: the identity record of the user, looked up with
\* vector_store.list; f = "list" is that call throwing
PersonaInjected(results, st, cfg, filt, f) ==
    IF ~cfg.enable_ego \/ ~Truthy(Get(filt, "user_id")) THEN results
    ELSE IF f = "list" THEN [raised |-> "list"]
    ELSE LET identity_query == SupabaseList(st, [user_id |-> filt["user_id"],
                                                 memory_type |-> "identity"], 1)
         IN IF identity_query # <<>>
            THEN Put(results, "persona_identity",
                     IF Has(identity_query[1].payload, "data")
                     THEN identity_query[1].payload["data"] ELSE "")
            ELSE results

\* Memory.search; with a graph store, self.graph.search(query,
\* effective_filters, limit) is a TypeError: SupabaseGraph.search takes the
\* query only
\* build_filters_and_metadata raises unless a session id is passed by
\* keyword, so the ValueError of line 829 is never reached; the simple
\* filters are merged over the keyword ids
MemorySearch(st, g, cfg, buffer, query, kw, filt, limit, threshold, f) ==
    IF Unscoped(kw) THEN [raised |-> "ValidationError"]
    ELSE LET effective_filters == Updated(QueryFilters(kw, filt), filt)
             found == SearchVectorStore(st, query, effective_filters, limit,
                                        threshold, f)
             results == [results |-> found.memories]
             resonant == IF buffer # <<>>
                         THEN Put(results, "subconscious_context", buffer)
                         ELSE results
         IN IF Has(found, "raised") THEN found
            ELSE IF g.enabled THEN [raised |-> "TypeError"]
            ELSE PersonaInjected(resonant, st, cfg, effective_filters, f)

\* Memory._get_all_from_vector_store: the MemoryItem dict without score
ListedItemDict(hit) ==
    LET item == MemoryItemDict([id |-> hit.id, score |-> 0, payload |-> hit.payload])
    IN [x \in DOMAIN item \ {"score"} |-> item[x]]

\* Memory.get_all; f = "list" is vector_store.list throwing
MemoryGetAll(st, kw, filt, limit, f) ==
    IF Unscoped(kw) THEN [raised |-> "ValidationError"]
    ELSE IF f = "list" THEN [raised |-> "list"]
    ELSE LET memories_result == SupabaseList(st, QueryFilters(kw, filt), limit)
         IN [results |-> [i \in 1..Len(memories_result) |->
                            ListedItemDict(memories_result[i])]]

\* RecollectionEngine.recollect on day today
EngineRecollect(st, g, cfg, buffer, query, filt, limit, enable_graph_jump, today, f) ==
    LET search_results == MemorySearch(st, g, cfg, buffer, query, EmptyDict, filt,
                                       limit * 2, 0, f)
        dated(item) == Put(item, "created_at",
                           [parses |-> TRUE, days |-> today - item["created_at"]])
        final_response ==
            ProcessResults([i \in 1..Len(search_results.results) |->
                               dated(search_results.results[i])],
                           limit, enable_graph_jump, <<>>,
                           [enable_graph |-> g.enabled, llm |-> NoLlm, graph |-> EmptyGraph])
        passed == DOMAIN search_results \cap {"subconscious_context", "persona_identity"}
    IN IF Has(search_results, "raised") THEN search_results
       ELSE IF Has(final_response, "raised") THEN final_response
       ELSE [x \in DOMAIN final_response \cup passed |->
               IF x \in passed THEN search_results[x] ELSE final_response[x]]

\* most records the collection holds
MaxRecords == 2

RECURSIVE Seeded(_)
\* the collection and the history after n add() calls of user A, one a day
Seeded(n) ==
    IF n = 0 THEN Outcome(EmptyDict, <<>>, FALSE, "none")
    ELSE CreateMemory(Seeded(n - 1).store, Seeded(n - 1).history, n, n,
                      IF n % 2 = 1 THEN "t1" ELSE "t2", EmptyDict,
                      ProcessedMetadata([user_id |-> "A"]), "none")

SearchInit ==
    /\ \E n \in 0..MaxRecords :
        /\ store = Seeded(n).store
        /\ history = Seeded(n).history
        /\ reinforcement = [i \in 1..n |-> 0]
        /\ nextId = n + 1
        /\ steps = n
    /\ CallIdle /\ SurpriseIdle /\ RecollectionIdle
    /\ callers = {}
    /\ calls = [c \in Callers |-> IdleCall]
    /\ graph_store \in {NoGraph, [NoGraph EXCEPT !.enabled = TRUE]}
    /\ searched = NotCalled
    /\ config \in {DefaultConfig, [DefaultConfig EXCEPT !.enable_ego = TRUE]}
    /\ resonance_buffer = <<>>
    /\ arrived = <<>>
    /\ handler = "idle"

\* memory.search(query, **kw, filters=filt, limit=limit, threshold=threshold)
SearchCall(query, kw, filt, limit, threshold, f) ==
    /\ searched = NotCalled
    /\ pc = "idle"
    /\ searched' = [called |-> TRUE, op |-> "search", query |-> query, kw |-> kw,
                    filters |-> filt, limit |-> limit, fault |-> f,
                    outcome |-> MemorySearch(store, graph_store, config,
                                             resonance_buffer, query, kw, filt, limit,
                                             threshold, f)]
    /\ UNCHANGED <<memoryvars, enginevars, callers, calls, graph_store, recallvars>>

\* memory.recollect(query, filters=filt, limit=limit) on day today
RecollectCall(query, filt, limit, today, f) ==
    /\ searched = NotCalled
    /\ pc = "idle"
    /\ searched' = [called |-> TRUE, op |-> "recollect", query |-> query,
                    kw |-> EmptyDict, filters |-> filt, limit |-> limit, fault |-> f,
                    outcome |-> EngineRecollect(store, graph_store, config,
                                                resonance_buffer, query, filt, limit,
                                                TRUE, today, f)]
    /\ UNCHANGED <<memoryvars, enginevars, callers, calls, graph_store, recallvars>>

\* memory.get_all(**kw, filters=filt, limit=limit)
GetAllCall(kw, filt, limit, f) ==
    /\ searched = NotCalled
    /\ pc = "idle"
    /\ searched' = [called |-> TRUE, op |-> "get_all", query |-> "",
                    kw |-> kw, filters |-> filt, limit |-> limit, fault |-> f,
                    outcome |-> MemoryGetAll(store, kw, filt, limit, f)]
    /\ UNCHANGED <<memoryvars, enginevars, callers, calls, graph_store, recallvars>>

\* Supabase.list: limit when none is passed
ListLimit == 100

\* iterating a pydantic model yields its (field, value) pairs
Iterated(output_data) ==
    <<<<"id", output_data.id>>, <<"score", None>>, <<"payload", output_data.payload>>>>

\* Memory.delete_all over the Supabase store: list() answers with a flat
\* list, so memories, its element [0], is one OutputData (IndexError when
\* nothing matches), and the loop runs over that record's fields, whose
\* .id is an AttributeError; the collection reset comes after the loop
DeleteAll(st, hist, kw, f) ==
    LET filt == EffectiveFilters(kw)
        listed == SupabaseList(st, filt, ListLimit)
        memories == Iterated(listed[1])
    IN IF DOMAIN filt = {} THEN [raised |-> "ValueError", store |-> st, history |-> hist]
       ELSE IF f = "list" THEN [raised |-> "list", store |-> st, history |-> hist]
       ELSE IF listed = <<>> THEN [raised |-> "IndexError", store |-> st, history |-> hist]
       ELSE IF memories # <<>>
            THEN [raised |-> "AttributeError", store |-> st, history |-> hist]
       ELSE [message |-> "Memories deleted successfully!", store |-> EmptyDict,
             history |-> hist]

\* memory.delete_all(**kw)
DeleteAllCall(kw, f) ==
    /\ searched = NotCalled
    /\ pc = "idle"
    /\ LET done == DeleteAll(store, history, kw, f)
       IN /\ store' = done.store
          /\ history' = done.history
          /\ searched' = [called |-> TRUE, op |-> "delete_all", query |-> "", kw |-> kw,
                          filters |-> EmptyDict, limit |-> 0, fault |-> f,
                          outcome |-> [x \in DOMAIN done \ {"store", "history"} |-> done[x]]]
    /\ UNCHANGED <<reinforcement, nextId, steps, localvars, enginevars, callers, calls,
                   graph_store, recallvars>>

\* add() calls without session id among the keyword arguments
UnscopedArgs ==
    { EmptyDict, [metadata |-> [user_id |-> "A"]], [org_id |-> "o1", visibility |-> "team"] }

SearchNext ==
    \/ \E query \in Texts, filt \in {EmptyDict, [user_id |-> "A"]},
          limit \in 1..MaxRecords, f \in {"none", "embed", "store", "list"} :
        \/ \E kw \in {EmptyDict, [user_id |-> "A"], [user_id |-> "B"]},
              threshold \in {0, 80} : SearchCall(query, kw, filt, limit, threshold, f)
        \/ \E today \in {MaxRecords, MaxRecords + HalfLifeDays} :
             RecollectCall(query, filt, limit, today, f)
    \/ \E kw \in {EmptyDict, [user_id |-> "A"], [user_id |-> "B"]},
          filt \in {EmptyDict, [user_id |-> "A"]},
          limit \in 1..MaxRecords, f \in {"none", "list"} : GetAllCall(kw, filt, limit, f)
    \/ \E kw \in {EmptyDict, [user_id |-> "A"], [user_id |-> "B"]}, f \in {"none", "list"} :
            DeleteAllCall(kw, f)
    \/ \E a \in UnscopedArgs, e \in Responses, fs \in FactLists, r \in Responses :
            AddBegin(a, e, fs, r)
    \/ Raise

SearchSpec == SearchInit /\ [][SearchNext]_vars

\* ------------------------------------------------- the resonance channel
\* The realtime client delivers the rows of the resonance channel on its own
\* thread; _handle_resonance appends to the buffer and then trims it, two
\* statements between which the thread of a search() call can run.

\* most rows the channel announces
MaxSignals == 6

\* on_change: importance above which a row resonates
ResonanceImportance == 80

\* _handle_resonance: entries the buffer is trimmed to
BufferCap == 5

\* the rows ("new" of the change) the channel can announce as its n-th
Rows(n) ==
    { [id |-> n, is_flashbulb |-> TRUE, payload |-> [data |-> "t1", importance_score |-> 50]],
      [id |-> n, is_flashbulb |-> FALSE, payload |-> [data |-> "t2", importance_score |-> 90]],
      [id |-> n, is_flashbulb |-> FALSE, payload |-> [data |-> "t2", importance_score |-> 80]] }

\* on_change: the row is handed to the callback
Resonates(row) == row.is_flashbulb \/ row.payload.importance_score > ResonanceImportance

\* _handle_resonance: memory_data
MemoryData(payload) ==
    [id |-> payload.id, memory |-> payload.payload.data,
     is_flashbulb |-> payload.is_flashbulb,
     importance_score |-> payload.payload.importance_score]

\* _handle_resonance: self.resonance_buffer.append(memory_data)
Absorbed(buffer, payload) == Append(buffer, MemoryData(payload))

\* the channel announces a row: on_change, and for a resonating row the
\* first statement of _handle_resonance
OnChange(row) ==
    /\ config.enable_resonance
    /\ handler = "idle"
    /\ Len(arrived) < MaxSignals
    /\ arrived' = Append(arrived, row)
    /\ IF Resonates(row)
       THEN /\ resonance_buffer' = Absorbed(resonance_buffer, row)
            /\ handler' = "appended"
       ELSE UNCHANGED <<resonance_buffer, handler>>
    /\ UNCHANGED <<memoryvars, enginevars, threadvars, config>>

\* _handle_resonance: if len(self.resonance_buffer) > 5: pop(0)
Trim ==
    /\ handler = "appended"
    /\ handler' = "idle"
    /\ resonance_buffer' = IF Len(resonance_buffer) > BufferCap
                           THEN Tail(resonance_buffer) ELSE resonance_buffer
    /\ UNCHANGED <<memoryvars, enginevars, threadvars, config, arrived>>

\* a Memory with enable_resonance over one record, subscribed to the channel
ResonanceInit ==
    /\ store = Seeded(1).store
    /\ history = Seeded(1).history
    /\ reinforcement = [i \in 1..1 |-> 0]
    /\ nextId = 2
    /\ steps = 1
    /\ CallIdle /\ SurpriseIdle /\ RecollectionIdle
    /\ callers = {}
    /\ calls = [c \in Callers |-> IdleCall]
    /\ graph_store = NoGraph
    /\ searched = NotCalled
    /\ config = [DefaultConfig EXCEPT !.enable_resonance = TRUE]
    /\ resonance_buffer = <<>>
    /\ arrived = <<>>
    /\ handler = "idle"

ResonanceNext ==
    \/ \E row \in Rows(Len(arrived) + 1) : OnChange(row)
    \/ Trim
    \/ SearchCall("t1", [user_id |-> "A"], EmptyDict, 1, 0, "none")

ResonanceSpec == ResonanceInit /\ [][ResonanceNext]_vars

\* ------------------------------------ add() on a collection with records
\* a Memory object over the records of earlier calls, no call in progress
BatchInit ==
    /\ \E n \in 1..MaxRecords :
        /\ store = Seeded(n).store
        /\ history = Seeded(n).history
        /\ reinforcement = [i \in 1..n |-> 0]
        /\ nextId = n + 1
    /\ steps = 0
    /\ CallIdle /\ SurpriseIdle /\ RecollectionIdle /\ ThreadsIdle

BatchSpec == BatchInit /\ [][Next]_vars

\* ------------------------------------------------------------------ claims
\* a loop iteration has just handled the decision resp'
Handled == steps' = steps + 1

\* an entry the loop has no branch for: not a JSON object, no or empty text,
\* or an event tag other than the four it dispatches on
IsMalformed(d) ==
    ~d.object \/ ~Truthy(d.text) \/ d.event \notin {"ADD", "UPDATE", "DELETE", "NONE"}

\* the record the handled decision names, NoId if its id does not resolve
Target == Resolve(temp_uuid_mapping, resp'.id)

\* the handled decision's text has a surprise assessment
Assessed == resp'.text \in DOMAIN surprise_results

Assessment == surprise_results[resp'.text]

SuppliesSession == Truthy(Get(metadata, "agent_id")) \/ Truthy(Get(metadata, "run_id"))

\* C1: an ADD decision whose fact is assessed not surprising with a best match
\* inserts no record and appends no history entry; it adds exactly one action,
\* REINFORCE with id = best_match_id
C1_ReinforceInsteadOfAdd ==
    [][(Handled /\ resp'.event = "ADD" /\ Assessed
            /\ ~Assessment["is_surprising"] /\ Assessment["best_match_id"] # NoId)
        => /\ store' = store
           /\ nextId' = nextId
           /\ history' = history
           /\ returned_memories' =
                Append(returned_memories,
                       [id |-> Assessment["best_match_id"], memory |-> resp'.text,
                        event |-> "REINFORCE"])]_vars

C1_Witness ==
    /\ pc = "apply" /\ k > 0 /\ resp.event = "ADD"
    /\ resp.text \in DOMAIN surprise_results
    /\ ~surprise_results[resp.text]["is_surprising"]
    /\ returned_memories # <<>>
    /\ Last(returned_memories).event = "REINFORCE"
    /\ Last(returned_memories).id \in DOMAIN store

\* C2: an ADD decision with a text, whose fact is surprising or has no best
\* match (or has no assessment at all), applied without a collaborator failure, inserts
\* exactly one record under an id never used before, adds one ADD action for
\* it, and the record carries the flashbulb tag iff the assessment says
\* is_flashbulb
C2_AddCreatesOneRecord ==
    [][(Handled /\ resp'.event = "ADD" /\ ~IsMalformed(resp') /\ fault' = "none"
            /\ (Assessed => Assessment["is_surprising"] \/ Assessment["best_match_id"] = NoId))
        => /\ Cardinality(DOMAIN store' \ DOMAIN store) = 1
           /\ DOMAIN store \subseteq DOMAIN store'
           /\ \A i \in DOMAIN store : store'[i] = store[i]
           /\ LET id == CHOOSE i \in DOMAIN store' : i \notin DOMAIN store
              IN /\ \A j \in 1..Len(history) : history[j].memory_id # id
                 /\ store'[id].payload["data"] = resp'.text
                 /\ returned_memories' =
                      Append(returned_memories,
                             [id |-> id, memory |-> resp'.text, event |-> "ADD"])
                 /\ Has(store'[id].payload, "is_flashbulb")
                      <=> (Assessed /\ Assessment["is_flashbulb"])]_vars

C2_Witness ==
    /\ pc = "apply" /\ k > 0 /\ resp.event = "ADD" /\ fault = "none"
    /\ returned_memories # <<>>
    /\ Last(returned_memories).event = "ADD"
    /\ \E i \in DOMAIN store, j \in DOMAIN store :
        /\ Has(store[i].payload, "is_flashbulb")
        /\ ~Has(store[j].payload, "is_flashbulb")
        /\ j = Last(returned_memories).id
        /\ resp.text \in DOMAIN surprise_results

\* C3: an UPDATE decision that resolves to a stored record and reaches the
\* store keeps every scoping field the prior record had and the call's
\* metadata lacks, and leaves the record with importance_score 1.0
C3_UpdateKeepsScoping ==
    [][(Handled /\ resp'.event = "UPDATE" /\ Target \in DOMAIN store
            /\ fault' \in {"none", "history"})
        => /\ Target \in DOMAIN store'
           /\ store'[Target].payload["data"] = resp'.text
           /\ store'[Target].payload["importance_score"] = 100
           /\ \A key \in {"user_id", "agent_id", "run_id", "actor_id", "role"} :
                (Has(store[Target].payload, key) /\ ~Has(metadata, key))
                => /\ Has(store'[Target].payload, key)
                   /\ store'[Target].payload[key] = store[Target].payload[key]]_vars

C3_Witness ==
    /\ pc = "apply" /\ k > 0 /\ resp.event = "UPDATE" /\ fault = "none"
    /\ returned_memories # <<>>
    /\ Last(returned_memories).event = "UPDATE"
    /\ LET id == Last(returned_memories).id
       IN /\ id \in DOMAIN store
          /\ ~Has(metadata, "agent_id") /\ ~Has(metadata, "role")
          /\ Get(store[id].payload, "agent_id") = "a2"
          /\ Get(store[id].payload, "role") = "user"
          /\ store[id].payload["importance_score"] = 100

\* C4: an UPDATE applied through add() by a caller who passed none of
\* visibility, org_id and team_id leaves the record's visibility, org_id and
\* team_id as they were
C4_UpdateKeepsVisibility ==
    [][(Handled /\ resp'.event = "UPDATE" /\ Target \in DOMAIN store
            /\ fault' = "none"
            /\ ~Has(args, "visibility") /\ ~Has(args, "org_id") /\ ~Has(args, "team_id"))
        => /\ Target \in DOMAIN store'
           /\ \A key \in {"visibility", "org_id", "team_id"} :
                Get(store'[Target].payload, key) = Get(store[Target].payload, key)]_vars

\* C5: every UPDATE the call reports appends exactly one history entry, with
\* event UPDATE, the text the record held just before as old text and the
\* decision's text as new text
C5_UpdateHistory ==
    [][(Handled /\ resp'.event = "UPDATE"
            /\ Len(returned_memories') = Len(returned_memories) + 1)
        => /\ Target \in DOMAIN store
           /\ Last(returned_memories').id = Target
           /\ Len(history') = Len(history) + 1
           /\ SubSeq(history', 1, Len(history)) = history
           /\ Last(history').event = "UPDATE"
           /\ Last(history').memory_id = Target
           /\ Last(history').old_memory = store[Target].payload["data"]
           /\ Last(history').new_memory = resp'.text]_vars

C5_Witness ==
    /\ pc = "apply" /\ k > 0 /\ resp.event = "UPDATE"
    /\ returned_memories # <<>> /\ history # <<>>
    /\ Last(returned_memories).event = "UPDATE"
    /\ Last(history).event = "UPDATE"
    /\ Last(history).old_memory # Last(history).new_memory
    /\ Last(history).new_memory = resp.text

\* C6: a DELETE decision with a text that resolves to a stored record, applied without a
\* collaborator failure, removes the record (no get and no search returns it
\* afterwards), adds one DELETE action with the real id and appends one
\* DELETE history entry whose old text is the removed record's text
C6_DeleteRemoves ==
    [][(Handled /\ resp'.event = "DELETE" /\ ~IsMalformed(resp')
            /\ Target \in DOMAIN store /\ fault' = "none")
        => /\ ~SupabaseGet(store', Target).found
           /\ \A t \in Texts, kw \in CallArgs :
                LET hits == SupabaseSearch(store', Embed(t), SearchLimit,
                                           SearchFilters(EffectiveFilters(kw)))
                IN \A i \in 1..Len(hits) : hits[i].id # Target
           /\ \A i \in DOMAIN store \ {Target} : i \in DOMAIN store' /\ store'[i] = store[i]
           /\ returned_memories' =
                Append(returned_memories,
                       [id |-> Target, memory |-> resp'.text, event |-> "DELETE"])
           /\ Len(history') = Len(history) + 1
           /\ SubSeq(history', 1, Len(history)) = history
           /\ Last(history').event = "DELETE"
           /\ Last(history').memory_id = Target
           /\ Last(history').old_memory = store[Target].payload["data"]]_vars

C6_Witness ==
    /\ pc = "apply" /\ k > 0 /\ resp.event = "DELETE" /\ fault = "none"
    /\ returned_memories # <<>> /\ history # <<>>
    /\ Last(returned_memories).event = "DELETE"
    /\ Last(returned_memories).id \notin DOMAIN store
    /\ Last(history).event = "DELETE"

\* C7: after a NONE decision that resolves to a stored record, handled for a
\* caller who supplied agent_id and/or run_id, the stored record's agent_id /
\* run_id are the caller's
C7_NoneSetsSessionIds ==
    [][(Handled /\ resp'.event = "NONE" /\ Target \in DOMAIN store /\ fault' = "none")
        => /\ Target \in DOMAIN store'
           /\ \A key \in {"agent_id", "run_id"} :
                Truthy(Get(metadata, key))
                => Get(store'[Target].payload, key) = metadata[key]]_vars

\* C8: a NONE decision never changes a record's text, embedding or hash,
\* never appends a history entry and never adds an action; when the caller
\* supplied neither agent_id nor run_id, or the id does not resolve, nothing
\* changes at all
C8_NoneLeavesContent ==
    [][(Handled /\ resp'.event = "NONE")
        => /\ history' = history
           /\ returned_memories' = returned_memories
           /\ DOMAIN store' = DOMAIN store
           /\ \A i \in DOMAIN store :
                /\ store'[i].vec = store[i].vec
                /\ store'[i].payload["data"] = store[i].payload["data"]
                /\ store'[i].payload["hash"] = store[i].payload["hash"]
           /\ (~SuppliesSession \/ Target = NoId)
                => /\ store' = store
                   /\ reinforcement' = reinforcement
                   /\ nextId' = nextId]_vars

C8_Witness ==
    /\ pc = "apply" /\ k > 0 /\ resp.event = "NONE" /\ fault = "none"
    /\ Resolve(temp_uuid_mapping, resp.id) \in DOMAIN store
    /\ Truthy(Get(metadata, "agent_id"))
    /\ ~Has(store[Resolve(temp_uuid_mapping, resp.id)].payload, "agent_id")

\* the decision's id is a key of the call's temp-id mapping
IsKey(id) == id.kind = "str" /\ id.n \in 0..(Len(temp_uuid_mapping) - 1)

\* C9: an UPDATE, DELETE or NONE decision whose id is not a key of the call's
\* temp-id mapping changes nothing; every record a decision changes or
\* removes is one of the records the call retrieved
C9_UnresolvedSkipped ==
    [][Handled
        => /\ (resp'.event \in {"UPDATE", "DELETE", "NONE"} /\ ~IsKey(resp'.id))
                => /\ store' = store
                   /\ history' = history
                   /\ reinforcement' = reinforcement
                   /\ returned_memories' = returned_memories
           /\ \A i \in DOMAIN store :
                (i \notin DOMAIN store' \/ store'[i] # store[i])
                => i \in Range(temp_uuid_mapping)]_vars

C9_Witness ==
    /\ pc = "apply" /\ k > 0 /\ resp.event \in {"UPDATE", "DELETE"}
    /\ temp_uuid_mapping # <<>>
    /\ resp.id.kind = "int"
    /\ resp.id.n < Len(temp_uuid_mapping)
    /\ temp_uuid_mapping[resp.id.n + 1] \in DOMAIN store

\* C10: a decision whose application fails adds no action, keeps the actions
\* added before it and leaves the loop running for the decisions after it;
\* no iteration ends the loop or the call
C10_FailureIsLocal ==
    [][Handled
        => /\ pc' = "apply"
           /\ facts' = facts
           /\ Len(returned_memories') >= Len(returned_memories)
           /\ SubSeq(returned_memories', 1, Len(returned_memories)) = returned_memories
           /\ errors' > errors => returned_memories' = returned_memories]_vars

C10_Witness ==
    /\ pc = "apply" /\ k = 2 /\ errors = 1
    /\ resp.event = "ADD" /\ fault = "none"
    /\ Len(returned_memories) = 1
    /\ Last(returned_memories).event = "ADD"
    /\ Last(returned_memories).id \in DOMAIN store

\* C11: an entry with an unknown event tag, an empty or missing text, or a
\* non-object shape is skipped: it changes nothing, adds no action and leaves
\* the loop running; every action the call collects is appended, in decision
\* order, by a well-formed entry whose application did not fail
C11_MalformedSkipped ==
    [][Handled
        => /\ pc' = "apply"
           /\ IsMalformed(resp')
                => /\ store' = store
                   /\ history' = history
                   /\ reinforcement' = reinforcement
                   /\ nextId' = nextId
                   /\ returned_memories' = returned_memories
           /\ returned_memories' # returned_memories
                => /\ ~IsMalformed(resp')
                   /\ errors' = errors
                   /\ Len(returned_memories') = Len(returned_memories) + 1
                   /\ SubSeq(returned_memories', 1, Len(returned_memories)) = returned_memories
                   /\ Last(returned_memories').memory = resp'.text
                   /\ Last(returned_memories').event \in {resp'.event, "REINFORCE"}]_vars

C11_Witness ==
    /\ pc = "apply" /\ k = 2 /\ errors = 1
    /\ ~resp.object
    /\ Len(returned_memories) = 1
    /\ Last(returned_memories).id \in DOMAIN store

\* the reconciliation request failed: it threw, came back empty or came back
\* with text that is not JSON
ReconcilerFailed(r) == r \in {"empty", "garbage", "throws"}

\* C12: when the reconciliation request throws, returns an empty response or
\* returns unparseable text, the call goes on without raising, no decision is
\* applied, it returns the empty action list, and store and history are as
\* they were
C12_ReconcilerFailureIsEmpty ==
    [][/\ (pc = "idle" /\ pc' # "idle" /\ ReconcilerFailed(response'))
            => /\ pc' = "apply"
               /\ returned_memories' = <<>>
               /\ store' = store
               /\ history' = history
       /\ (pc = "apply" /\ ReconcilerFailed(response))
            => /\ pc' = "idle"
               /\ returned_memories = <<>>
               /\ store' = store
               /\ history' = history
               /\ reinforcement' = reinforcement]_vars

C12_Witness ==
    /\ pc = "apply" /\ response = "throws"
    /\ facts # <<>> /\ temp_uuid_mapping # <<>>
    /\ returned_memories = <<>>

\* C13: when the fact-extraction request returns an empty response, returns
\* non-JSON text or throws, the fact list is empty and add() goes on to return
\* normally, with no action and no change of the store
C13_ExtractionFailureIsEmpty ==
    [][(pc = "idle" /\ pc' # "idle" /\ extraction' \in {"empty", "garbage", "throws"})
        => /\ pc' = "apply"
           /\ facts' = <<>>
           /\ ~HasDecisions(response')
           /\ returned_memories' = <<>>
           /\ store' = store
           /\ history' = history]_vars

\* the records the searches of the call's facts returned
RetrievedIds(st, fs, filt) ==
    UNION { {Existing(st, fs[i], filt)[j].id : j \in 1..Len(Existing(st, fs[i], filt))}
            : i \in 1..Len(fs) }

C15_ReinforceIncrements ==
    [][(Handled /\ Len(returned_memories') = Len(returned_memories) + 1
            /\ Last(returned_memories').event = "REINFORCE")
        => LET id == Last(returned_memories').id
           IN /\ id \in DOMAIN reinforcement
              /\ id \in DOMAIN reinforcement'
              /\ reinforcement'[id] = reinforcement[id] + 1]_vars

\* every nearby entry has an id and a score
NearbyWellFormed ==
    \A i \in 1..Len(nearby) : Has(nearby[i], "id") /\ Has(nearby[i], "score")

\* C16: evaluate() agrees with its reference on every list of {id, score}
\* entries: the empty list gives {true, true, null, 0.0}; otherwise
\* max_similarity is the largest score, best_match_id the id of the first
\* entry with that score, and each flag says that max_similarity is strictly
\* below its threshold
C16_EvaluateMatchesReference ==
    (evaluated # NotCalled /\ NearbyWellFormed)
    => IF nearby = <<>>
       THEN evaluated = [is_surprising |-> TRUE, is_flashbulb |-> TRUE,
                         best_match_id |-> NoId, max_similarity |-> 0]
       ELSE /\ DOMAIN evaluated =
                 {"is_surprising", "is_flashbulb", "best_match_id", "max_similarity"}
            /\ \E i \in 1..Len(nearby) :
                 /\ nearby[i]["score"] = evaluated["max_similarity"]
                 /\ \A j \in 1..Len(nearby) : nearby[j]["score"] <= nearby[i]["score"]
                 /\ \A j \in 1..(i - 1) : nearby[j]["score"] < nearby[i]["score"]
                 /\ evaluated["best_match_id"] = nearby[i]["id"]
            /\ evaluated["is_surprising"]
                 <=> ~(evaluated["max_similarity"] >= engine.surprise_threshold)
            /\ evaluated["is_flashbulb"]
                 <=> ~(evaluated["max_similarity"] >= engine.flashbulb_threshold)

C16_Witness ==
    /\ evaluated # NotCalled /\ NearbyWellFormed
    /\ engine = DefaultSurpriseEngine
    /\ Len(nearby) = 2
    /\ nearby[1]["score"] = nearby[2]["score"]
    /\ nearby[1]["id"] # nearby[2]["id"]
    /\ evaluated["max_similarity"] = engine.surprise_threshold
    /\ ~evaluated["is_surprising"]
    /\ evaluated["best_match_id"] = nearby[1]["id"]

\* C17: every engine that can be constructed has flashbulb_threshold below
\* surprise_threshold, and every assessment it returns is surprising whenever
\* it is flashbulb
C17_FlashbulbImpliesSurprising ==
    (evaluated # NotCalled /\ ~Has(evaluated, "raised"))
    => /\ engine.flashbulb_threshold < engine.surprise_threshold
       /\ evaluated["is_flashbulb"] => evaluated["is_surprising"]

\* C18: given a nearby entry without a score or without an id, evaluate()
\* raises a validation error and returns no assessment
C18_MalformedRaises ==
    (evaluated # NotCalled /\ ~NearbyWellFormed)
    => /\ Has(evaluated, "raised")
       /\ evaluated["raised"] = "ValidationError"

\* _process_results returned: it was called and did not raise
Ranked3 ==
    /\ recollected # NotCalled /\ ~Has(recollected, "raised")
    /\ Len(candidates) = 3 /\ final_limit >= 3
    /\ {candidates[i]["id"] : i \in 1..3} = {1, 2, 3}

\* C19 as stated: the candidates with similarity 0.9 / 0.95 / 0.2 and
\* importance 1.0 / 0.5 / 1.0, all created now, come back with the 0.95
\* candidate first, then the 0.9 one, then the 0.2 one
C19_ScenarioAsStated ==
    Ranked3 => [i \in 1..3 |-> recollected.memories[i]["id"]] = <<2, 1, 3>>

\* C19: those three candidates come back with the 0.9 candidate first (score
\* 0.95), then the 0.95 candidate (0.825), then the 0.2 candidate (0.6),
\* whatever order they were given in
C19_ScenarioRanking ==
    Ranked3
    => /\ [i \in 1..3 |-> recollected.memories[i]["id"]] = <<1, 2, 3>>
       /\ [i \in 1..3 |-> recollected.memories[i]["recollection_score"]]
            = <<9500, 8250, 6000>>

C19_Witness ==
    /\ Ranked3
    /\ candidates[1]["id"] = 2 /\ candidates[2]["id"] = 1
    /\ recollected.memories[1]["id"] = 1
    /\ recollected.memories[2]["id"] = 2

\* C20: the score of every ranked candidate is the blend
\* 0.5 similarity + 0.3 importance + 0.2 recency rounded to four decimals
\* (it is within half of 0.0001 of the exact blend), with similarity 0.5 and
\* importance 1.0 for a candidate that has none; the weights sum to 1.0 and
\* similarity = importance = recency = 1.0 scores exactly 1.0
C20_BlendedScore ==
    /\ WSimilarity + WImportance + WRecency = 100
    /\ (recollected # NotCalled /\ ~Has(recollected, "raised"))
        => \A i \in 1..Len(recollected.memories) :
            LET m == recollected.memories[i]
                sim == IF Has(m, "score") THEN m["score"] ELSE 50
                imp == IF Has(m, "importance_score") THEN m["importance_score"] ELSE 100
                rec == Recency(m)
                exact == (50 * sim + 30 * imp) * rec.den + 2000 * rec.num
                diff == m["recollection_score"] * rec.den - exact
            IN /\ rec.den > 0
               /\ 2 * diff <= rec.den /\ 2 * diff >= 0 - rec.den
               /\ (sim = 100 /\ imp = 100 /\ rec.num = rec.den)
                    => m["recollection_score"] = 10000

C20_Witness ==
    /\ recollected # NotCalled /\ ~Has(recollected, "raised")
    /\ Len(recollected.memories) = 3
    /\ recollected.memories[1]["id"] = 5
    /\ recollected.memories[1]["recollection_score"] = 10000
    /\ recollected.memories[2]["id"] = 6
    /\ recollected.memories[2]["recollection_score"] = 9435
    /\ recollected.memories[3]["id"] = 4
    /\ recollected.memories[3]["recollection_score"] = 6500

\* the call ranked its candidates and returned
Returned == recollected # NotCalled /\ ~Has(recollected, "raised")

\* created_at is missing or is a string that is no ISO timestamp
Undated(m) == ~Has(m, "created_at") \/ ~m["created_at"].parses

\* 0.5 similarity + 0.3 importance of a ranked memory, in ten-thousandths
Base(m) ==
    50 * (IF Has(m, "score") THEN m["score"] ELSE 50)
    + 30 * (IF Has(m, "importance_score") THEN m["importance_score"] ELSE 100)

\* C21: the recency component of a score is 1 / (1 + d/30) for a candidate
\* created d >= 0 days ago (0.5 at 30 days, 1.0 at 0 days) and 0.5 for a
\* candidate whose created_at is missing or does not parse; a list of such
\* candidates is ranked without raising
C21_RecencyDecay ==
    /\ (recollected # NotCalled
         /\ \A i \in 1..Len(candidates) :
               Undated(candidates[i]) \/ candidates[i]["created_at"].days >= 0)
        => ~Has(recollected, "raised")
    /\ Returned
        => \A i \in 1..Len(recollected.memories) :
            LET m == recollected.memories[i]
                d == m["created_at"].days
                diff == (m["recollection_score"] - Base(m)) * (30 + d) - 2000 * 30
            IN /\ Undated(m) => m["recollection_score"] = Base(m) + 1000
               /\ (~Undated(m) /\ d >= 0)
                    => /\ 2 * diff <= 30 + d /\ 2 * diff >= 0 - (30 + d)
                       /\ d = 30 => m["recollection_score"] = Base(m) + 1000
                       /\ d = 0 => m["recollection_score"] = Base(m) + 2000

C21_Witness ==
    /\ Returned
    /\ Len(recollected.memories) = 3
    /\ recollected.memories[1]["id"] = 7
    /\ recollected.memories[1]["recollection_score"] = 7250
    /\ recollected.memories[2]["id"] = 4
    /\ recollected.memories[2]["recollection_score"] = 6500
    /\ recollected.memories[3]["id"] = 8
    /\ recollected.memories[3]["recollection_score"] = 5000

\* place of candidate i in the descending order that keeps ties in input
\* order
Place(i) ==
    LET sc(j) == RecollectionScore(candidates[j])
    IN 1 + Cardinality({j \in 1..Len(candidates) : sc(j) > sc(i)})
         + Cardinality({j \in 1..(i - 1) : sc(j) = sc(i)})

\* the smaller of the limit and the number of candidates
Kept == IF final_limit < Len(candidates) THEN final_limit ELSE Len(candidates)

\* C22: the ranked memories are in non-increasing order of score, candidates
\* with equal scores keep their input order, and the output is exactly the
\* first min(limit, n) elements of that ordering of the n candidates
C22_SortedStableTruncated ==
    Returned
    => /\ Len(recollected.memories) = Kept
       /\ \A p, q \in 1..Len(recollected.memories) :
            p < q => recollected.memories[p]["recollection_score"]
                       >= recollected.memories[q]["recollection_score"]
       /\ \A i \in 1..Len(candidates) :
            Place(i) <= Kept
            => recollected.memories[Place(i)]
                 = Put(candidates[i], "recollection_score",
                       RecollectionScore(candidates[i]))

C22_Witness ==
    /\ Returned
    /\ Len(candidates) = 3 /\ final_limit = 2
    /\ [i \in 1..3 |-> candidates[i]["id"]] = <<10, 5, 4>>
    /\ [i \in 1..2 |-> recollected.memories[i]["id"]] = <<5, 10>>

\* C23: ranking the memories a call returned again, with limit equal to
\* their number, returns the same elements in the same order, ties included
C23_Idempotent ==
    [][(Returned /\ candidates' = recollected.memories
        /\ final_limit' = Len(recollected.memories))
       => (~Has(recollected', "raised")
           /\ recollected'.memories = recollected.memories)]_vars

C23_Witness ==
    /\ Returned
    /\ candidates = recollected.memories
    /\ Len(candidates) = 3
    /\ [i \in 1..3 |-> candidates[i]["id"]] = <<1, 10, 4>>
    /\ \A i \in 2..3 : candidates[i]["recollection_score"] = 6500

\* out is s without the entries whose triple an earlier entry of s has
IsFirstSeen(out, s) ==
    LET keep == {i \in 1..Len(s) :
                   \A j \in 1..(i - 1) : Triple(s[j]) # Triple(s[i])}
    IN /\ Len(out) = Cardinality(keep)
       /\ \A i \in keep : out[1 + Cardinality({j \in keep : j < i})] = s[i]

\* the call was made with the jump switched off or without a graph store
JumpOff ==
    /\ recollected # NotCalled
    /\ ~jump.enable_graph_jump \/ ~jump.memory.enable_graph

\* C24 as stated: with the jump disabled or no graph store configured the
\* returned associations are the initial ones with the same elements, order
\* and multiplicity, and the graph store is never searched
C24_InitialUnchanged ==
    JumpOff
    => /\ ~Has(recollected, "raised")
       /\ recollected.associations = jump.initial_relations
       /\ recollected.graph_calls = <<>>

\* C24: with the jump disabled or no graph store configured the returned
\* associations are the initial ones in their order, less every entry whose
\* (source, relation, target) an earlier entry has (so unchanged when no two
\* share a triple, and empty when there are none), whatever the candidates
\* are, and the graph store is never searched
C24_InitialDeduplicated ==
    JumpOff
    => /\ ~Has(recollected, "raised")
       /\ IsFirstSeen(recollected.associations, jump.initial_relations)
       /\ (\A i, j \in 1..Len(jump.initial_relations) :
              i # j => Triple(jump.initial_relations[i])
                         # Triple(jump.initial_relations[j]))
            => recollected.associations = jump.initial_relations
       /\ recollected.graph_calls = <<>>

C24_Witness ==
    /\ Returned
    /\ ~jump.enable_graph_jump /\ jump.memory.enable_graph
    /\ jump.memory.graph.answers = "distinct"
    /\ Len(recollected.memories) = 3
    /\ jump.initial_relations = <<Shared("search"), Shared("again")>>
    /\ recollected.associations = <<Shared("search")>>
    /\ recollected.graph_calls = <<>>

\* the first two ranked memories
TopTwo == SubSeq(recollected.memories, 1,
                 IF Len(recollected.memories) < 2 THEN Len(recollected.memories) ELSE 2)

\* the text of a memory and the entities the reasoner names for it
QueriesOf(m) ==
    IF ~Has(m, "memory") THEN {}
    ELSE {m["memory"]}
         \cup (IF jump.memory.llm.present
                THEN {jump.memory.llm.entities[m["memory"]][i] :
                        i \in 1..Len(jump.memory.llm.entities[m["memory"]])}
                ELSE {})

\* C25: the graph store is searched only with the text or the entities of
\* one of the first two ranked memories, at most 3 times per memory and so
\* at most 6 times per call
C25_AtMostSixSearches ==
    Returned
    => /\ Len(recollected.graph_calls) <= 6
       /\ \A i \in 1..Len(recollected.graph_calls) :
            \E n \in 1..Len(TopTwo) : recollected.graph_calls[i] \in QueriesOf(TopTwo[n])
       /\ \A n \in 1..Len(TopTwo) :
            Cardinality({i \in 1..Len(recollected.graph_calls) :
                           recollected.graph_calls[i] \in QueriesOf(TopTwo[n])}) <= 3

C25_Witness ==
    /\ Returned
    /\ Len(candidates) = 3 /\ Len(recollected.memories) = 3
    /\ jump.memory.llm = LlmEntities
    /\ recollected.graph_calls = <<"e1", "e2", "e3", "f1", "f2", "f3">>

\* the jump is switched on and there is a graph store
JumpOn ==
    /\ recollected # NotCalled
    /\ jump.enable_graph_jump /\ jump.memory.enable_graph

\* C26: a failure of the entity extraction or of a graph search is caught:
\* the call returns, the memories are the ranked candidates, each of the
\* first two memories that has a text is searched for (by its text when the
\* extraction failed), and what the answered searches returned is among the
\* associations
C26_JumpFailureCaught ==
    /\ recollected # NotCalled => ~Has(recollected, "raised")
    /\ JumpOn
        => /\ recollected.memories
                = ProcessResults(candidates, final_limit, FALSE, <<>>, NoJump.memory).memories
           /\ \A n \in 1..Len(TopTwo) :
                Has(TopTwo[n], "memory")
                => /\ \E i \in 1..Len(recollected.graph_calls) :
                        recollected.graph_calls[i] \in QueriesOf(TopTwo[n])
                   /\ TopTwo[n]["memory"] \in jump.memory.llm.raises
                        => \E i \in 1..Len(recollected.graph_calls) :
                             recollected.graph_calls[i] = TopTwo[n]["memory"]
           /\ \A i \in 1..Len(recollected.graph_calls) :
                LET query == recollected.graph_calls[i]
                    related == Related(jump.memory.graph, query)
                IN query \notin jump.memory.graph.raises
                   => \A r \in 1..Len(related) :
                        \E a \in 1..Len(recollected.associations) :
                          Triple(recollected.associations[a]) = Triple(related[r])

C26_Witness ==
    /\ Returned /\ JumpOn
    /\ jump.memory.llm = LlmEntities
    /\ jump.memory.graph.raises = {"m1", "e2"}
    /\ jump.initial_relations = <<>>
    /\ recollected.graph_calls = <<"e1", "e2", "f1", "f2", "f3">>
    /\ recollected.associations = <<Own("e1"), Own("f1"), Own("f2"), Own("f3")>>

RECURSIVE Answers(_)
\* what the answered searches of a list of queries returned, in order
Answers(queries) ==
    IF queries = <<>> THEN <<>>
    ELSE (IF Head(queries) \in jump.memory.graph.raises THEN <<>>
          ELSE Related(jump.memory.graph, Head(queries)))
         \o Answers(Tail(queries))

\* C27: the associations are the initial ones followed by what the graph
\* searches returned, less every entry whose (source, relation, target) an
\* earlier entry has; the first dict of a triple is the one kept and no two
\* entries share a triple
C27_InitialThenJumpDeduplicated ==
    Returned
    => /\ IsFirstSeen(recollected.associations,
                      jump.initial_relations \o Answers(recollected.graph_calls))
       /\ \A i, j \in 1..Len(recollected.associations) :
            i # j => Triple(recollected.associations[i])
                       # Triple(recollected.associations[j])

C27_Witness ==
    /\ Returned /\ JumpOn
    /\ jump.memory.graph = [raises |-> {}, answers |-> "same"]
    /\ jump.initial_relations = <<Own("e1"), Shared("search")>>
    /\ recollected.graph_calls = <<"e1", "e2", "e3", "g1">>
    /\ recollected.associations
         = <<Own("e1"), Shared("search"), Own("e2"), Own("e3"), Own("g1")>>

RECURSIVE RunDecisions(_, _, _)
\* the vector task of a call run by itself on an empty collection
RunDecisions(acc, ds, call) ==
    IF ds = <<>> THEN acc
    ELSE LET a == ApplyDecision(acc.store, acc.history, acc.reinforcement, acc.returned,
                                acc.nextId, acc.steps + 1, Head(ds), "none",
                                call.metadata,
                                SurpriseResults(EmptyDict, call.facts, call.filters),
                                TempUuidMapping(EmptyDict, call.facts, call.filters),
                                NewMessageEmbeddings(call.facts))
         IN RunDecisions([store |-> a.store, history |-> a.history,
                          reinforcement |-> a.reinforcement, returned |-> a.returned,
                          nextId |-> a.nextId, steps |-> acc.steps + 1],
                         Tail(ds), call)

\* the only thread has got its response, and the stores and the response are
\* what the two tasks leave when one runs after the other
SameAsSequential ==
    (callers = {1} /\ calls[1].stage = "responded")
    => LET call == calls[1]
           v == RunDecisions([store |-> EmptyDict, history |-> <<>>,
                              reinforcement |-> EmptyDict, returned |-> <<>>,
                              nextId |-> 1, steps |-> 0], call.decisions, call)
           g == AddToGraph([NoGraph EXCEPT !.enabled = graph_store.enabled],
                           call.extraction, call.filters)
       IN /\ store = v.store /\ history = v.history
          /\ reinforcement = v.reinforcement /\ nextId = v.nextId
          /\ graph_store = g.graph
          /\ call.response
                = IF graph_store.enabled
                  THEN [results |-> v.returned, relations |-> g.relations]
                  ELSE [results |-> v.returned]

\* C28: add() answers only after its vector task and its graph task have
\* both finished; a step of the vector task leaves the graph store and the
\* graph task's result alone, a step of the graph task leaves the
\* collection, the history and the vector task's locals alone; and however
\* the two tasks of a call interleave, the stores and the response are the
\* same as when one task runs after the other
C28_BranchesIndependent ==
    /\ []SameAsSequential
    /\ [][\A c \in Callers :
            /\ (calls[c].stage = "running" /\ calls'[c].stage = "responded")
                => /\ calls[c].vector = "apply"
                   /\ calls[c].k = Len(calls[c].decisions)
                   /\ calls[c].graph = "done"
            /\ (calls[c].stage = "running"
                 /\ (calls'[c].vector # calls[c].vector \/ calls'[c].k # calls[c].k))
                => /\ graph_store' = graph_store
                   /\ calls'[c].graph = calls[c].graph
                   /\ calls'[c].relations = calls[c].relations
            /\ (calls[c].stage = "running" /\ calls'[c].graph # calls[c].graph)
                => /\ UNCHANGED <<store, history, reinforcement, nextId>>
                   /\ calls'[c].vector = calls[c].vector
                   /\ calls'[c].k = calls[c].k
                   /\ calls'[c].returned = calls[c].returned
                   /\ calls'[c].surprise_results = calls[c].surprise_results
                   /\ calls'[c].temp_uuid_mapping = calls[c].temp_uuid_mapping]_vars

C28_Witness ==
    /\ callers = {1}
    /\ calls[1].stage = "responded"
    /\ Len(calls[1].decisions) = 2
    /\ calls[1].graph_at = 2
    /\ graph_store.enabled
    /\ DOMAIN graph_store.nodes = {"Alice", "Bob"}
    /\ Len(calls[1].response.results) = 2
    /\ calls[1].response.relations = [nodes |-> 2, edges |-> 2]

\* C29: a call that applies an ADD for a fact its own searches found no
\* close match for inserts a new record holding that fact, whatever the
\* collection holds by then: nothing between the surprise assessment of a
\* call and its insert looks at what other calls have done
C29_AddInsertsUnchecked ==
    [][\A c \in Callers :
        LET call == calls[c]
            d == call.decisions[call.k + 1]
            surprise == SurpriseOf(call.surprise_results, d.text)
        IN (/\ call.stage = "running" /\ calls'[c].k = call.k + 1
            /\ d.event = "ADD"
            /\ surprise["is_surprising"] \/ surprise["best_match_id"] = NoId)
           => /\ nextId \notin DOMAIN store
              /\ nextId \in DOMAIN store'
              /\ store'[nextId].payload["data"] = d.text
              /\ Last(calls'[c].returned)
                   = [id |-> nextId, memory |-> d.text, event |-> "ADD"]]_vars

\* two calls carrying the fact t1 both assessed it before either inserted
\* (neither search found a record), both applied ADD, and the collection
\* holds two records with that fact
C29_Witness ==
    /\ callers = Callers
    /\ \A c \in Callers :
        /\ calls[c].facts = <<"t1">>
        /\ calls[c].surprise_results["t1"]["best_match_id"] = NoId
        /\ calls[c].surprise_results["t1"]["is_surprising"]
        /\ calls[c].k = 1
        /\ calls[c].returned = <<[id |-> c, memory |-> "t1", event |-> "ADD"]>>
    /\ DOMAIN store = {1, 2}
    /\ \A i \in {1, 2} : /\ store[i].payload["data"] = "t1"
                          /\ store[i].payload["user_id"] = "A"

\* search() or recollect() was called with a session id while the embedder
\* or the store was failing
RetrievalFailed ==
    /\ searched # NotCalled
    /\ searched.fault \in {"embed", "store"}
    /\ DOMAIN searched.kw # {}

\* C30: a search() or recollect() call during which the embedder or the
\* store's search throws raises that failure to its caller: it returns no
\* result, neither an empty nor a partial one (and without such a failure,
\* on a Memory without graph store, the call returns its result); a call
\* that never gets to the retrieval raises as well
C30_RetrievalFailurePropagates ==
    /\ RetrievalFailed
        => /\ DOMAIN searched.outcome = {"raised"}
           /\ searched.outcome.raised = searched.fault
    /\ (searched # NotCalled /\ searched.fault \in {"embed", "store"})
        => DOMAIN searched.outcome = {"raised"}
    /\ (searched # NotCalled /\ searched.op = "search" /\ searched.fault = "none"
        /\ DOMAIN searched.kw # {} /\ ~graph_store.enabled)
        => ~Has(searched.outcome, "raised")

C30_Witness ==
    /\ RetrievalFailed
    /\ searched.op = "search"
    /\ searched.fault = "store"
    /\ searched.kw = [user_id |-> "A"]
    /\ DOMAIN store = {1, 2}
    /\ ~graph_store.enabled
    /\ searched.outcome = [raised |-> "store"]

\* C31: a search() or recollect() call whose core retrieval succeeded (a
\* session id was given, neither the embedder nor the store's search threw,
\* no graph store) returns its results even when the identity lookup of the
\* persona injection fails
C31_EnrichmentNeverRaises ==
    (/\ searched # NotCalled
     /\ searched.op \in {"search", "recollect"}
     /\ DOMAIN searched.kw # {}
     /\ searched.fault \notin {"embed", "store"}
     /\ ~graph_store.enabled)
        => ~Has(searched.outcome, "raised")

\* add(), search() or get_all() was called without session id
CalledUnscoped ==
    /\ searched # NotCalled
    /\ searched.op \in {"search", "get_all"}
    /\ Unscoped(searched.kw)

\* C32: add(), search() and get_all() called without user_id, agent_id and
\* run_id raise the validation error, whichever collaborator would have
\* thrown had it been called and whatever the filters or the metadata hold,
\* and leave the store, the history and the graph as they were
C32_UnscopedCallsRejected ==
    /\ [](CalledUnscoped => searched.outcome = [raised |-> "ValidationError"])
    /\ [](pc \in {"invalid", "raised"} => Unscoped(args) /\ pc = "invalid")
    /\ [][(pc = "idle" /\ pc' # "idle")
            => /\ Unscoped(args') /\ pc' = "invalid"
               /\ UNCHANGED <<store, history, reinforcement, graph_store>>]_vars
    /\ [][(searched' # searched /\ searched'.op \in {"search", "get_all"})
            => UNCHANGED <<store, history, reinforcement, graph_store>>]_vars

C32_Witness ==
    /\ CalledUnscoped
    /\ searched.filters = [user_id |-> "A"]
    /\ searched.fault # "none"
    /\ pc = "invalid"
    /\ args = [metadata |-> [user_id |-> "A"]]
    /\ DOMAIN store = {1}

\* C33: the importance_score of every stored record lies in [0, 1]
\* (hundredths: 0..100)
C33_ImportanceWithinUnit ==
    \A id \in DOMAIN store :
        Has(store[id].payload, "importance_score")
            => store[id].payload["importance_score"] \in 0..100

C35_DeleteAllScoped ==
    (searched # NotCalled /\ searched.op = "delete_all" /\ searched.fault = "none")
        => IF Unscoped(searched.kw)
           THEN Has(searched.outcome, "raised") /\ DOMAIN store = 1..(nextId - 1)
           ELSE /\ ~Has(searched.outcome, "raised")
                /\ \A id \in 1..(nextId - 1) :
                     id \in DOMAIN store
                        <=> ~Matches(Seeded(nextId - 1).store[id].payload,
                                     EffectiveFilters(searched.kw))

\* the records of the collection that match the call's scoping filters
Scoped(st, filt) ==
    [id \in {i \in DOMAIN st : Matches(st[i].payload, filt)} |-> st[id]]

\* what the iteration that handles resp' leaves when the collection holds
\* the records of the call's scope only
HandledAlone ==
    ApplyDecision(Scoped(store, filters), history, reinforcement, returned_memories,
                  nextId, steps + 1, resp', fault', metadata, surprise_results,
                  temp_uuid_mapping, NewMessageEmbeddings(facts))

\* the reinforcement counts of the records of st
OfRecords(rc, st) == [i \in DOMAIN rc \cap DOMAIN st |-> rc[i]]

\* C36: an add() call changes, removes and reinforces only records that
\* match its scoping filters; the mapping and the surprise assessments it
\* builds, the actions it returns and what it leaves of the records of its
\* scope and of their reinforcement counts are those of the same call on a
\* collection without the records of other scopes
C36_TenantIsolation ==
    [][/\ Handled
          => /\ \A i \in DOMAIN store :
                    (\/ i \notin DOMAIN store'
                     \/ store'[i] # store[i]
                     \/ /\ Has(reinforcement', i)
                        /\ ~Has(reinforcement, i) \/ reinforcement'[i] # reinforcement[i])
                    => Matches(store[i].payload, filters)
             /\ returned_memories' = HandledAlone.returned
             /\ OfRecords(reinforcement', Scoped(store', filters))
                    = OfRecords(HandledAlone.reinforcement, HandledAlone.store)
             /\ history' = HandledAlone.history
             /\ Scoped(store', filters) = HandledAlone.store
       /\ (pc = "idle" /\ pc' = "apply")
          => /\ temp_uuid_mapping' = TempUuidMapping(Scoped(store, filters'), facts', filters')
             /\ surprise_results' = SurpriseResults(Scoped(store, filters'), facts', filters')
      ]_vars

C36_Witness ==
    /\ pc = "apply" /\ k > 0
    /\ resp.event = "ADD" /\ resp.object
    /\ args = [user_id |-> "A"]
    /\ \E i, j \in DOMAIN store :
        /\ store[i].payload["user_id"] = "B"
        /\ store[i].payload["data"] = resp.text
        /\ (Has(reinforcement, i) => reinforcement[i] = 0)
        /\ store[j].payload["user_id"] = "A"
        /\ store[j].payload["data"] = resp.text
        /\ j > i

\* C37: every record in the store has an ADD entry in the history, and
\* every record that was added and is gone has a DELETE entry
C37_AuditComplete ==
    /\ \A id \in DOMAIN store :
        \E i \in 1..Len(history) :
            history[i].memory_id = id /\ history[i].event = "ADD"
    /\ \A i \in 1..Len(history) :
        (history[i].event = "ADD" /\ history[i].memory_id \notin DOMAIN store)
            => \E j \in 1..Len(history) :
                 history[j].memory_id = history[i].memory_id /\ history[j].event = "DELETE"

\* the decision resp' names, by a key of the mapping, a record that is no
\* longer in the store: an earlier decision of the batch deleted it
NamesDeleted ==
    /\ Handled
    /\ resp'.object /\ Truthy(resp'.text)
    /\ resp'.event \in {"UPDATE", "DELETE", "NONE"}
    /\ IsKey(resp'.id)
    /\ Target \notin DOMAIN store

\* C38: an UPDATE, DELETE or NONE decision that names a record deleted
\* earlier in the batch leaves the record absent and adds no record, no
\* history entry, no action and no reinforcement
C38_DeletedStaysDeleted ==
    [][NamesDeleted
        => /\ store' = store
           /\ history' = history
           /\ returned_memories' = returned_memories
           /\ reinforcement' = reinforcement]_vars

C38_Witness ==
    /\ pc = "apply" /\ k = 2
    /\ resp.event = "UPDATE" /\ resp.object /\ Truthy(resp.text)
    /\ IsKey(resp.id)
    /\ Resolve(temp_uuid_mapping, resp.id) \notin DOMAIN store
    /\ Len(returned_memories) = 1
    /\ returned_memories[1]["event"] = "DELETE"
    /\ returned_memories[1]["id"] = Resolve(temp_uuid_mapping, resp.id)
    /\ history[Len(history)].event = "DELETE"
    /\ fault = "none"

\* C39: with similarity and importance in [0, 1] (all candidates here) and
\* a created_at that parses, in the past or in the future, the ranking
\* returns, and every blended score lies in [0, 1] (ten-thousandths)
C39_RankingBounded ==
    (recollected # NotCalled
     /\ \A i \in 1..Len(candidates) :
            Has(candidates[i], "created_at") /\ candidates[i]["created_at"].parses)
        => /\ ~Has(recollected, "raised")
           /\ \A i \in 1..Len(recollected.memories) :
                recollected.memories[i]["recollection_score"] \in 0..10000

\* C40: the resonance buffer never holds more than 5 entries, and a
\* search() never returns a subconscious_context of more than 5 entries
C40_BufferBounded ==
    /\ Len(resonance_buffer) <= BufferCap
    /\ (searched # NotCalled /\ Has(searched.outcome, "subconscious_context"))
        => Len(searched.outcome["subconscious_context"]) <= BufferCap

====
